---- MODULE Spec2Model ----
(***************************************************************************)
(* A model of the x-rss worker (src/src/index.tsx, src/src/hc.ts,          *)
(* src/src/tweet-extract.ts).  Each component the properties are about is  *)
(* a state machine over its own group of variables and has its own         *)
(* specification; the variables of the other components stay at their      *)
(* initial value in that specification.                                    *)
(*                                                                         *)
(*   SpecFetch   reliableFetch                      (hc.ts)                *)
(*   SpecFlight  singleflight + refreshAllProfiles  (index.tsx)            *)
(*   SpecLink    unwrapLink                         (index.tsx)            *)
(*   SpecExplode tweetLinkExplode                   (index.tsx)            *)
(*   SpecExtract extractTweets (page and worker), updateTweetsCache        *)
(*   SpecChunks  extractTextChunks                  (tweet-extract.ts)     *)
(*   SpecCache   updateTweetsCache put by put, and the feed request        *)
(*   SpecBatch   reportHealthcheck around the refreshes of one batch       *)
(*                                                                         *)
(* An await is a step boundary: the synchronous code between two awaits is *)
(* one action.                                                             *)
(***************************************************************************)
EXTENDS Integers, Sequences, FiniteSets, TLC

VARIABLES
    \* reliableFetch (hc.ts)
    rfPc,           \* "idle" | "racing" | "done"
    attempt,        \* the loop variable of reliableFetch
    outstanding,    \* attempts whose underlying fetch() has not settled
    rfResult,       \* "none" | "true" | "false" | "raised"
    outcomes,       \* history: the outcome of each attempt, in order
    \* singleflight / refreshAllProfiles (index.tsx)
    activePromise,  \* the closure variable of singleflight: NoPromise or a batch
    fnState,        \* per batch: where the wrapped async function is
    finState,       \* per batch: the promise fn(...).finally(...) handed out
    microtasks,     \* queued .finally callbacks, run before any new event
    browser,        \* per batch: the browser session of useBrowser
    held,           \* history: one record per trigger, the promise it received
    handled,        \* number of handler invocations so far
    \* unwrapLink (index.tsx)
    tweet_cache,    \* env.tweet_cache restricted to the link-unwrap keys
    href,           \* the link the calls of unwrapLink are about
    calls,          \* per call of unwrapLink: its position and locals
    returned,       \* history: per link, the URLs its calls have returned, each
                    \* with whether the call ran alone (see UnwrapStart)
    \* tweetLinkExplode (index.tsx)
    xLink,          \* the argument
    xPc,            \* "idle" | "call" | "done"
    xResult,        \* the pair returned
    \* extractTweets in the page (tweet-extract.ts)
    now,            \* the clock, in ms
    domCount,       \* the page holds the post elements 1..domCount, in order
    marked,         \* the elements that carry data-extracted
    tweetEl,        \* the loop variable: an element, or NoElement
    tweets,         \* the list the loop builds
    pageStart,      \* `start`
    pagePc,         \* "none" | "invoked" | "loopTop" | "extracting" |
                    \* "returned" | "threw" | "closed"
    visitLog,       \* history: the elements extractTweet was called on
    \* extractTweets and updateTweetsCache in the worker (index.tsx)
    wPc,            \* where the refresh of the profile is
    raceStart,      \* the clock when sleep(60_000) was armed
    wTweets,        \* `tweets` after the sort
    wOutcome,       \* "none" | "ok" | "failed": how extractTweets ended
    postPuts,       \* the puts of post bodies that are in flight
    keyPuts,        \* the puts of the three profile-scoped keys in flight
    store,          \* env.tweet_cache restricted to the keys of the profile
    evaluated,      \* history: what page.evaluate('extractTweets()') gave
    \* extractTextChunks (tweet-extract.ts)
    ctNodes,        \* el.childNodes
    ctIdx,          \* the position of the for-of loop in el.childNodes
    ctChunks,       \* `chunks`
    ctPc,           \* "idle" | "loop" | "returned" | "threw"
    \* updateTweetsCache put by put, and a feed request (index.tsx)
    settled,        \* the puts of postPuts that were acknowledged or failed
    failedPuts,     \* the puts of postPuts that failed
    store0,         \* history: the store before the refresh
    rPc,            \* "idle" | "reading" | "done": the feed request
    rFormat,        \* "rss" | "json"
    rPending,       \* the gets of line 553-556 that have not been served
    rTimeline,      \* `timeline`
    rProfile,       \* `profile`
    rResponse,      \* the response, or what was raised
    \* one batch: reportHealthcheck around the profile refreshes
    hcId,           \* env.HEALTHCHECK_ID: "configured" or ""
    hcStart,        \* the start signal: "none" | "sending" | "delivered" |
                    \* "failed" | "skipped"
    hcFinish,       \* the success signal, likewise
    hcFail,         \* the failure signal, likewise
    bPc,            \* "idle" | "starting" | "refreshing" | "finished" |
                    \* "rejected"
    prof            \* per username: where its updateTweetsCache is, how it
                    \* ended, whether it wrote its keys, and the link
                    \* resolutions its limiter holds queued and running

fetchVars  == <<rfPc, attempt, outstanding, rfResult, outcomes>>
flightVars == <<activePromise, fnState, finState, microtasks, browser, held, handled>>
linkVars   == <<tweet_cache, href, calls, returned>>
explodeVars == <<xLink, xPc, xResult>>
pageVars   == <<now, domCount, marked, tweetEl, tweets, pageStart, pagePc,
                visitLog>>
workerVars == <<wPc, raceStart, wTweets, wOutcome, postPuts, keyPuts, store,
                evaluated>>
extractVars == <<pageVars, workerVars>>
chunkVars == <<ctNodes, ctIdx, ctChunks, ctPc>>
putVars    == <<settled, failedPuts, store0>>
readVars   == <<rPc, rFormat, rPending, rTimeline, rProfile, rResponse>>
cacheVars  == <<putVars, readVars>>
batchVars  == <<hcId, hcStart, hcFinish, hcFail, bPc, prof>>
vars == <<fetchVars, flightVars, linkVars, explodeVars, extractVars, chunkVars,
          cacheVars, batchVars>>

\* what each component leaves alone
notFetch   == <<flightVars, linkVars, explodeVars, extractVars, chunkVars, cacheVars,
               batchVars>>
notFlight  == <<fetchVars, linkVars, explodeVars, extractVars, chunkVars, cacheVars,
               batchVars>>
notLink    == <<fetchVars, flightVars, explodeVars, extractVars, chunkVars, cacheVars,
               batchVars>>
notExplode == <<fetchVars, flightVars, linkVars, extractVars, chunkVars, cacheVars,
               batchVars>>
notExtract == <<fetchVars, flightVars, linkVars, explodeVars, chunkVars, cacheVars,
               batchVars>>
notChunks  == <<fetchVars, flightVars, linkVars, explodeVars, extractVars, cacheVars,
               batchVars>>
\* the put-by-put refresh and the feed request share the store with the
\* worker of SpecExtract; this is what they leave alone besides
notCache   == <<fetchVars, flightVars, linkVars, explodeVars, chunkVars, batchVars>>
notBatch   == <<fetchVars, flightVars, linkVars, explodeVars, extractVars, chunkVars,
               cacheVars>>

-----------------------------------------------------------------------------
(* reliableFetch, src/src/hc.ts:13-46                                      *)

MAX_ATTEMPTS == 5

\* the four things one attempt can end in
Outcomes == {"reject", "timeout", "nonok", "ok"}

InitFetch ==
    /\ rfPc = "idle"
    /\ attempt = 0
    /\ outstanding = {}
    /\ rfResult = "none"
    /\ outcomes = <<>>

\* the for-loop condition, hc.ts:28
loopContinuesOffByOne(a) == a < MAX_ATTEMPTS
loopContinues(a) == a <= MAX_ATTEMPTS

\* what the body of the loop does with the outcome of one attempt, hc.ts:29-43:
\* a rejected fetch is caught and logged, a timeout and a non-ok response
\* `continue`, an ok response returns true.
attemptVerdict(o) ==
    CASE o = "reject"  -> "retry"
      [] o = "timeout" -> "retry"
      [] o = "nonok"   -> "retry"
      [] o = "ok"      -> "true"

\* The underlying calls left outstanding when attempt a ends in outcome o.
\* Promise.race only stops waiting: on a timeout the fetch of attempt a is
\* neither aborted nor awaited (no AbortController/signal in init2), so it
\* stays outstanding; in the other outcomes the fetch itself has settled.
afterAttempt(out, a, o) ==
    IF o = "timeout" THEN out ELSE out \ {a}

\* reportStart/reportFinish/reportFailure call reliableFetch (hc.ts:54,65,82):
\* attempt = 1 and the first fetch is issued before the first await.
Call ==
    /\ rfPc = "idle"
    /\ attempt' = 1
    /\ outstanding' = {1}
    /\ rfPc' = "racing"
    /\ UNCHANGED <<rfResult, outcomes>>
    /\ UNCHANGED notFetch

\* Promise.race([fetch, sleep(2500)]) settles with outcome o, and the code runs
\* to its next await (the next attempt's race) or to its return.
AttemptEnds(o) ==
    /\ rfPc = "racing"
    /\ outcomes' = Append(outcomes, o)
    /\ LET left == afterAttempt(outstanding, attempt, o)
           v == attemptVerdict(o)
       IN  IF v = "true"
           THEN /\ rfResult' = "true"
                /\ rfPc' = "done"
                /\ outstanding' = left
                /\ UNCHANGED attempt
           ELSE IF v = "raise"
           THEN /\ rfResult' = "raised"
                /\ rfPc' = "done"
                /\ outstanding' = left
                /\ UNCHANGED attempt
           ELSE IF loopContinues(attempt + 1)
           THEN /\ attempt' = attempt + 1
                /\ outstanding' = left \cup {attempt + 1}
                /\ UNCHANGED <<rfPc, rfResult>>
           ELSE /\ attempt' = attempt + 1
                /\ rfResult' = "false"
                /\ rfPc' = "done"
                /\ outstanding' = left
    /\ UNCHANGED notFetch

FetchRejects  == AttemptEnds("reject")
TimeoutFires  == AttemptEnds("timeout")
NonOkResponse == AttemptEnds("nonok")
OkResponse    == AttemptEnds("ok")

\* an abandoned fetch (its attempt timed out) settles later; nobody looks
AbandonedSettles ==
    /\ \E a \in outstanding :
          /\ (rfPc = "racing" => a # attempt)
          /\ outstanding' = outstanding \ {a}
    /\ UNCHANGED <<rfPc, attempt, rfResult, outcomes>>
    /\ UNCHANGED notFetch

NextFetch ==
    \/ Call
    \/ FetchRejects
    \/ TimeoutFires
    \/ NonOkResponse
    \/ OkResponse
    \/ AbandonedSettles

-----------------------------------------------------------------------------
(* singleflight and refreshAllProfiles, src/src/index.tsx:509-543          *)

MaxTriggers == 3
NoPromise == 0
Batches == 1..MaxTriggers

InitFlight ==
    /\ activePromise = NoPromise
    /\ fnState = [b \in Batches |-> "unused"]
    /\ finState = [b \in Batches |-> "unused"]
    /\ microtasks = <<>>
    /\ browser = [b \in Batches |-> "none"]
    /\ held = <<>>
    /\ handled = 0

\* a batch is executing while the wrapped async function has not settled
Running(st) == st \in {"launching", "starting", "refreshing"}
RunningBatches == {b \in Batches : Running(fnState[b])}
UsedBatches == {b \in Batches : fnState[b] # "unused"}

\* index.tsx:512: `if (activePromise)`
singleflightJoinsNever(ap) == FALSE
singleflightJoins(ap) == ap # NoPromise

\* index.tsx:516-518: the callback of .finally runs when fn's promise has
\* settled with outcome st (fulfilled or rejected) and clears the guard
singleflightCleanupOnSuccessOnly(st, ap) == IF st = "fulfilled" THEN NoPromise ELSE ap
singleflightCleanup(st, ap) == NoPromise

\* refreshAllProfiles(env, ctx) as called by a handler of the given kind
\* (index.tsx:535 and 541).  Joining returns the promise in the guard; otherwise
\* fn runs up to its first await (puppeteer.launch in useBrowser, line 107) and
\* the promise of fn(...).finally(...) is stored and returned.
refreshAllProfiles(kind) ==
    LET inflight == RunningBatches
    IN  IF singleflightJoins(activePromise)
        THEN /\ held' = Append(held, [kind |-> kind, promise |-> activePromise,
                                      inflight |-> inflight, started |-> NoPromise])
             /\ UNCHANGED <<activePromise, fnState, finState, microtasks, browser>>
        ELSE LET b == Cardinality(UsedBatches) + 1
             IN  /\ fnState' = [fnState EXCEPT ![b] = "launching"]
                 /\ finState' = [finState EXCEPT ![b] = "pending"]
                 /\ activePromise' = b
                 /\ held' = Append(held, [kind |-> kind, promise |-> b,
                                          inflight |-> inflight, started |-> b])
                 /\ UNCHANGED <<microtasks, browser>>

\* A handler, like the settling of an awaited operation, is a new event: it
\* runs only when no microtask is queued.
EventLoopIdle == microtasks = <<>>

\* index.tsx:534-536
Scheduled ==
    /\ EventLoopIdle
    /\ handled < MaxTriggers
    /\ handled' = handled + 1
    /\ refreshAllProfiles("scheduled")
    /\ UNCHANGED notFlight

\* index.tsx:537-543: the manual trigger path
FetchTrigger ==
    /\ EventLoopIdle
    /\ handled < MaxTriggers
    /\ handled' = handled + 1
    /\ refreshAllProfiles("manual")
    /\ UNCHANGED notFlight

\* index.tsx:545-646: every other path reads the cache and starts no refresh
FetchOther ==
    /\ EventLoopIdle
    /\ handled < MaxTriggers
    /\ handled' = handled + 1
    /\ UNCHANGED <<activePromise, fnState, finState, microtasks, browser, held>>
    /\ UNCHANGED notFlight

\* fn's promise settles with outcome st: the .finally callback is queued
Settle(b, st) ==
    /\ fnState' = [fnState EXCEPT ![b] = st]
    /\ microtasks' = Append(microtasks, b)

\* index.tsx:107-110: puppeteer.launch resolves; useBrowser calls buf, which
\* enters reportHealthcheck and awaits reportStart (hc.ts:2)
LaunchOk(b) ==
    /\ EventLoopIdle
    /\ fnState[b] = "launching"
    /\ fnState' = [fnState EXCEPT ![b] = "starting"]
    /\ browser' = [browser EXCEPT ![b] = "open"]
    /\ UNCHANGED <<activePromise, finState, microtasks, held, handled>>
    /\ UNCHANGED notFlight

\* puppeteer.launch rejects: the finally of useBrowser has no browser to close
\* and the error leaves refreshAllProfiles
LaunchFails(b) ==
    /\ EventLoopIdle
    /\ fnState[b] = "launching"
    /\ Settle(b, "rejected")
    /\ UNCHANGED <<activePromise, finState, browser, held, handled>>
    /\ UNCHANGED notFlight

\* hc.ts:2-4: reportStart succeeded, fn() starts the profile refreshes
StartOk(b) ==
    /\ EventLoopIdle
    /\ fnState[b] = "starting"
    /\ fnState' = [fnState EXCEPT ![b] = "refreshing"]
    /\ UNCHANGED <<activePromise, finState, microtasks, browser, held, handled>>
    /\ UNCHANGED notFlight

\* hc.ts:66-68: reportStart throws; useBrowser's finally hands browser.close()
\* to ctx.waitUntil without awaiting it (index.tsx:110)
StartFails(b) ==
    /\ EventLoopIdle
    /\ fnState[b] = "starting"
    /\ Settle(b, "rejected")
    /\ browser' = [browser EXCEPT ![b] = "closing"]
    /\ UNCHANGED <<activePromise, finState, held, handled>>
    /\ UNCHANGED notFlight

\* index.tsx:527-530: every updateTweetsCache has resolved (it catches its own
\* errors), reportFinish is handed to ctx.waitUntil, the browser is closing
RefreshDone(b) ==
    /\ EventLoopIdle
    /\ fnState[b] = "refreshing"
    /\ Settle(b, "fulfilled")
    /\ browser' = [browser EXCEPT ![b] = "closing"]
    /\ UNCHANGED <<activePromise, finState, held, handled>>
    /\ UNCHANGED notFlight

\* index.tsx:516-518: the .finally callback of batch Head(microtasks) runs and
\* the promise that was handed out settles like fn's
RunFinally ==
    /\ microtasks # <<>>
    /\ LET b == Head(microtasks)
       IN  /\ activePromise' = singleflightCleanup(fnState[b], activePromise)
           /\ finState' = [finState EXCEPT ![b] = fnState[b]]
    /\ microtasks' = Tail(microtasks)
    /\ UNCHANGED <<fnState, browser, held, handled>>
    /\ UNCHANGED notFlight

\* browser.close() completes some time after the batch has settled
BrowserClosed(b) ==
    /\ EventLoopIdle
    /\ browser[b] = "closing"
    /\ browser' = [browser EXCEPT ![b] = "closed"]
    /\ UNCHANGED <<activePromise, fnState, finState, microtasks, held, handled>>
    /\ UNCHANGED notFlight

NextFlight ==
    \/ Scheduled
    \/ FetchTrigger
    \/ FetchOther
    \/ \E b \in Batches : LaunchOk(b)
    \/ \E b \in Batches : LaunchFails(b)
    \/ \E b \in Batches : StartOk(b)
    \/ \E b \in Batches : StartFails(b)
    \/ \E b \in Batches : RefreshDone(b)
    \/ RunFinally
    \/ \E b \in Batches : BrowserClosed(b)

-----------------------------------------------------------------------------
(* unwrapLink, src/src/index.tsx:460-500                                   *)

\* A string is a sequence of UTF-16 code units.  Null stands for null and
\* undefined, which the code does not tell apart (`if (savedValue)`, `??`).
Null == <<-1>>

MaxCalls == 3
MaxHops == 2

\* "t", "tc": the tracking links of link chunks (an href is always ASCII)
Links == { <<116>>, <<116, 99>> }
\* The locations a hop can carry.  A hop's location is a URL that was
\* requested: not empty.  "a" and "h€" (outside Latin-1) are locations as
\* recorded, "b\xFF" is one with its tracking parameters removed.
Originals == { <<97>>, <<104, 8364>> }
Cleaned == { <<98, 255>> }
Urls == Originals \cup Cleaned

Pad == 64
Latin1Max == 255

\* btoa: throws on a code unit above 0xFF (CanEncode is false), otherwise the
\* base64 text, here as its sequence of sextets with Pad for '='
CanEncode(s) == \A i \in DOMAIN s : s[i] <= Latin1Max

RECURSIVE btoa(_)
btoa(s) ==
    IF Len(s) = 0 THEN <<>>
    ELSE IF Len(s) = 1
         THEN << s[1] \div 4, (s[1] % 4) * 16, Pad, Pad >>
    ELSE IF Len(s) = 2
         THEN << s[1] \div 4, (s[1] % 4) * 16 + s[2] \div 16, (s[2] % 16) * 4, Pad >>
    ELSE << s[1] \div 4, (s[1] % 4) * 16 + s[2] \div 16,
            (s[2] % 16) * 4 + s[3] \div 64, s[3] % 64 >>
         \o btoa(SubSeq(s, 4, Len(s)))

\* atob of a base64 text that btoa produced
RECURSIVE atob(_)
atob(t) ==
    IF Len(t) < 4 THEN <<>>
    ELSE LET b1 == t[1] * 4 + t[2] \div 16
             b2 == (t[2] % 16) * 16 + t[3] \div 4
             b3 == (t[3] % 4) * 64 + t[4]
         IN  (IF t[3] = Pad THEN <<b1>>
              ELSE IF t[4] = Pad THEN <<b1, b2>>
              ELSE <<b1, b2, b3>>)
             \o atob(SubSeq(t, 5, Len(t)))

\* index.tsx:460-462: the salted SHA-256 of the link, taken to be free of
\* collisions on the links of the model
linkUnwrapResultData(link) == <<"link-unwrap/hash:", link>>

LinkKeys == {linkUnwrapResultData(l) : l \in Links}

\* index.tsx:467: `if (savedValue)`: null and the empty string are falsy
Truthy(v) == v # Null /\ v # <<>>

\* index.tsx:470-483: LinkHop.  A non-final hop has no cleaned location, and
\* its location is never read: one value stands for all.
Hops ==
    [final : {TRUE}, original : Originals, cleaned : Cleaned \cup {Null}]
    \cup [final : {FALSE}, original : {<<97>>}, cleaned : {Null}]

RECURSIVE SeqsUpTo(_, _)
SeqsUpTo(S, n) ==
    IF n = 0 THEN {<<>>}
    ELSE LET shorter == SeqsUpTo(S, n - 1)
         IN  shorter \cup {Append(q, x) : q \in {r \in shorter : Len(r) = n - 1}, x \in S}

HopSeqs == SeqsUpTo(Hops, MaxHops)

Reverse(q) == [i \in 1..Len(q) |-> q[Len(q) + 1 - i]]

\* index.tsx:488-491: the scan of hops.reverse() for the first hop marked
\* final: its position in the reversed sequence, 0 when the loop falls through
finalHopOrFirst(reversed) ==
    LET fin == {i \in DOMAIN reversed : reversed[i].final}
    IN  IF fin # {} THEN CHOOSE i \in fin : \A j \in fin : i <= j
        ELSE IF reversed # <<>> THEN 1 ELSE 0
finalHop(reversed) ==
    LET fin == {i \in DOMAIN reversed : reversed[i].final}
    IN  IF fin = {} THEN 0
        ELSE CHOOSE i \in fin : \A j \in fin : i <= j

\* index.tsx:492: h.location.cleaned ?? h.location.original
finalLocation(h) == IF h.cleaned # Null THEN h.cleaned ELSE h.original

\* the location of the last hop marked final in the order the resolver
\* recorded them, cleaned if it has a cleaned one: what the hops call for
wanted(hops) ==
    LET fin == {i \in DOMAIN hops : hops[i].final}
        last == CHOOSE i \in fin : \A j \in fin : j <= i
    IN  IF fin = {} THEN Null
        ELSE IF hops[last].cleaned # Null THEN hops[last].cleaned
        ELSE hops[last].original

CallIds == 1..MaxCalls

IdleCall ==
    [pc |-> "idle", link |-> Null, final |-> Null, result |-> Null,
     prior |-> {}, alone |-> TRUE, followed |-> FALSE, hops |-> "none", wrote |-> FALSE,
     want |-> Null]

\* a call between its start and its return or throw
InFlight(c) == calls[c].pc \in {"getting", "following", "putting"}

\* index.tsx:493: the value stored for a final URL
storedValueRaw(final) == final
storedValue(final) == btoa(final)

\* Calls for different links use different keys and share nothing: the
\* calls of one behaviour are all for the same link, any of Links.
InitLink ==
    /\ tweet_cache = [k \in LinkKeys |-> Null]
    /\ href \in Links
    /\ calls = [c \in CallIds |-> IdleCall]
    /\ returned = [l \in Links |-> {}]

\* no link is being resolved
IdleLink ==
    /\ tweet_cache = [k \in LinkKeys |-> Null]
    /\ href = Null
    /\ calls = [c \in CallIds |-> IdleCall]
    /\ returned = [l \in Links |-> {}]

\* index.tsx:464-466: unwrapLink(env, link) is called (by a link chunk of
\* extractTweets, index.tsx:83); the key is hashed and the get is issued.
\* prior: what the earlier calls for this link have returned so far.
\* alone: no other call for the same link is in flight while this one is.
UnwrapStart(c) ==
    /\ calls[c].pc = "idle"
    /\ \A d \in CallIds : d < c => calls[d].pc # "idle"
    /\ LET link == href
           overlap == {d \in CallIds : InFlight(d) /\ calls[d].link = link}
       IN  calls' = [d \in CallIds |->
                       IF d = c
                       THEN [IdleCall EXCEPT !.pc = "getting", !.link = link,
                                             !.prior = returned[link],
                                             !.alone = (overlap = {})]
                       ELSE IF d \in overlap THEN [calls[d] EXCEPT !.alone = FALSE]
                       ELSE calls[d]]
    /\ UNCHANGED <<tweet_cache, href, returned>>
    /\ UNCHANGED notLink

\* index.tsx:466-469: the get resolves with a stored value: cache hit
GetHits(c) ==
    /\ calls[c].pc = "getting"
    /\ LET savedValue == tweet_cache[linkUnwrapResultData(calls[c].link)]
       IN  /\ Truthy(savedValue)
           /\ calls' = [calls EXCEPT ![c].pc = "done", ![c].result = atob(savedValue)]
           /\ returned' = [returned EXCEPT ![calls[c].link] =
                                 @ \cup {<<atob(savedValue), calls[c].alone>>}]
    /\ UNCHANGED <<tweet_cache, href>>
    /\ UNCHANGED notLink

\* index.tsx:466-487: cache miss: btoa(link) and the resolver is invoked
GetMisses(c) ==
    /\ calls[c].pc = "getting"
    /\ ~Truthy(tweet_cache[linkUnwrapResultData(calls[c].link)])
    /\ calls' = [calls EXCEPT ![c].pc = IF CanEncode(calls[c].link) THEN "following" ELSE "failed",
                              ![c].followed = CanEncode(calls[c].link)]
    /\ UNCHANGED <<tweet_cache, href, returned>>
    /\ UNCHANGED notLink

\* index.tsx:487-499: follow() resolves with hops; the scan finds the final hop
\* and issues the put of btoa(final), or throws
FollowReturns(c) ==
    /\ calls[c].pc = "following"
    /\ \E hops \in HopSeqs :
       LET r == Reverse(hops)
           at == finalHop(r)
           h == r[at]
           seen == IF \E i \in DOMAIN hops : hops[i].final THEN "final" ELSE "nofinal"
       IN  IF at = 0
           THEN calls' = [calls EXCEPT ![c].pc = "failed", ![c].hops = seen,
                                       ![c].want = wanted(hops)]
           ELSE IF ~CanEncode(finalLocation(h))
           THEN calls' = [calls EXCEPT ![c].pc = "failed", ![c].hops = seen,
                                       ![c].want = wanted(hops)]
           ELSE calls' = [calls EXCEPT ![c].pc = "putting", ![c].hops = seen,
                                       ![c].final = finalLocation(h),
                                       ![c].want = wanted(hops)]
    /\ UNCHANGED <<tweet_cache, href, returned>>
    /\ UNCHANGED notLink

\* the call to the resolver binding rejects
FollowFails(c) ==
    /\ calls[c].pc = "following"
    /\ calls' = [calls EXCEPT ![c].pc = "failed"]
    /\ UNCHANGED <<tweet_cache, href, returned>>
    /\ UNCHANGED notLink

\* index.tsx:493-497: the put is acknowledged and final is returned
PutReturns(c) ==
    /\ calls[c].pc = "putting"
    /\ tweet_cache' = [tweet_cache EXCEPT ![linkUnwrapResultData(calls[c].link)] =
                                          storedValue(calls[c].final)]
    /\ calls' = [calls EXCEPT ![c].pc = "done", ![c].result = calls[c].final, ![c].wrote = TRUE]
    /\ returned' = [returned EXCEPT ![calls[c].link] =
                          @ \cup {<<calls[c].final, calls[c].alone>>}]
    /\ UNCHANGED href
    /\ UNCHANGED notLink

\* index.tsx:493-495: expirationTtl: the entry of a link expires; what was
\* returned inside the window that ends here no longer binds later calls
Expires(link) ==
    /\ Truthy(tweet_cache[linkUnwrapResultData(link)])
    /\ tweet_cache' = [tweet_cache EXCEPT ![linkUnwrapResultData(link)] = Null]
    /\ returned' = [returned EXCEPT ![link] = {}]
    /\ calls' = [c \in CallIds |->
                   IF calls[c].link = link THEN [calls[c] EXCEPT !.prior = {}] ELSE calls[c]]
    /\ UNCHANGED href
    /\ UNCHANGED notLink

NextLink ==
    \/ \E c \in CallIds : UnwrapStart(c)
    \/ \E c \in CallIds : GetHits(c)
    \/ \E c \in CallIds : GetMisses(c)
    \/ \E c \in CallIds : FollowReturns(c)
    \/ \E c \in CallIds : FollowFails(c)
    \/ \E c \in CallIds : PutReturns(c)
    \/ \E link \in Links : Expires(link)

-----------------------------------------------------------------------------
(* tweetLinkExplode, src/src/index.tsx:114-135                             *)

MaxPathLen == 7

\* A pathname is a sequence of tokens: "/" or a piece of text without a
\* slash.  Adjacent pieces run together into one path segment, so a segment
\* is a sequence of pieces and 'status' is the segment <<"status">>.
PathTokens == {"/", "NWSNewYorkNY", "status", "12345"}

\* null and undefined as values of the same sort as a segment
JsNull == <<"null">>
JsUndefined == <<"undefined">>

\* the pathname of a parsed http(s) URL starts with a slash
Pathnames ==
    {q \in SeqsUpTo(PathTokens, MaxPathLen) : q # <<>> /\ q[1] = "/"}

\* the host as written in the link; URL.parse lower-cases it
RawHosts == {"x.com", "twitter.com", "X.com", "www.x.com", "other.example"}

\* the links tweetLinkExplode is given: text that is no URL, or a URL
ExplodeInputs ==
    {[isUrl |-> FALSE, host |-> "", path |-> <<>>]}
    \cup [isUrl : {TRUE}, host : RawHosts, path : Pathnames]

\* String.prototype.toLowerCase on the hosts and names of the model
ToLowerCase(h) ==
    IF h = "X.com" THEN "x.com"
    ELSE IF h = "NWSNewYorkNY" THEN "nwsnewyorkny"
    ELSE h

\* index.tsx:115: URL.parse(link): null for text that is no URL
NoUrl == [hostname |-> "", pathname |-> <<>>, ok |-> FALSE]
URLparse(link) ==
    IF link.isUrl
    THEN [hostname |-> ToLowerCase(link.host), pathname |-> link.path, ok |-> TRUE]
    ELSE NoUrl

\* index.tsx:122: pathname.split('/')
RECURSIVE Split(_)
Split(q) ==
    LET sl == {i \in DOMAIN q : q[i] = "/"}
    IN  IF sl = {} THEN <<q>>
        ELSE LET i == CHOOSE k \in sl : \A j \in sl : k <= j
             IN  <<SubSeq(q, 1, i - 1)>> \o Split(SubSeq(q, i + 1, Len(q)))

\* array destructuring: a missing element is undefined
ElementAt(arr, i) == IF i <= Len(arr) THEN arr[i] ELSE JsUndefined

\* `!x` for a string, null or undefined
Falsy(x) == x = JsUndefined \/ x = JsNull \/ x = <<>>

\* index.tsx:119-121: the case labels of the switch on uri.hostname
isTweetHostXOnly(hostname) == hostname = "x.com"
isTweetHost(hostname) == hostname \in {"x.com", "twitter.com"}

\* index.tsx:114-135
tweetLinkExplode(link) ==
    LET uri == URLparse(link)
    IN  IF ~uri.ok THEN <<JsNull, JsNull>>
        ELSE IF isTweetHost(uri.hostname)
        THEN LET parts == Split(uri.pathname)
                 username == ElementAt(parts, 2)
                 statusWord == ElementAt(parts, 3)
                 id == ElementAt(parts, 4)
             IN  IF Falsy(username) THEN <<JsNull, JsNull>>
                 ELSE IF statusWord = JsUndefined THEN <<username, JsNull>>
                 ELSE IF statusWord = <<"status">> THEN <<username, id>>
                 ELSE <<JsNull, JsNull>>
        ELSE <<JsNull, JsNull>>

NoLink == [isUrl |-> FALSE, host |-> "", path |-> <<>>]

InitExplode ==
    /\ xLink \in ExplodeInputs
    /\ xPc = "call"
    /\ xResult = <<JsUndefined, JsUndefined>>

IdleExplode ==
    /\ xLink = NoLink
    /\ xPc = "idle"
    /\ xResult = <<JsUndefined, JsUndefined>>

\* index.tsx:156 and 313: a caller applies tweetLinkExplode to a link
Explode ==
    /\ xPc = "call"
    /\ xResult' = tweetLinkExplode(xLink)
    /\ xPc' = "done"
    /\ UNCHANGED xLink
    /\ UNCHANGED notExplode

NextExplode == Explode

-----------------------------------------------------------------------------
(* extractTweets in the page, src/src/tweet-extract.ts:105-203             *)

MAX_TWEETS == 15          \* tweet-extract.ts:187
PAGE_BUDGET_MS == 60000   \* tweet-extract.ts:190
RACE_TIMEOUT_MS == 60000  \* index.tsx:56

Quantum == 30000    \* the clock advances by at most this many ms in a step
MaxTicks == 3       \* the clock stops at MaxTicks * Quantum
MaxVaried == 2      \* the first MaxVaried elements vary in timestamp, the
                    \* later ones all carry the same
MaxBroken == 1      \* the first MaxBroken elements may lack a proper permalink
MaxPinned == 1      \* the first MaxPinned elements may be pinned posts
MaxReposted == 1    \* the first MaxReposted elements may be reposts

NoElement == 0      \* querySelector found nothing: null
NoTime == -1

Username == "NWSNewYorkNY"

\* the dateTime attribute of a post's <time>; the second is the instant of
\* the first written with another offset
Timestamps ==
    {"2024-05-01T12:00:00.000Z", "2024-05-01T14:00:00.000+02:00",
     "2024-05-02T09:00:00.000Z"}

\* Date.parse on the timestamps of the model, in seconds since the epoch
DateParse(ts) ==
    IF ts = "2024-05-02T09:00:00.000Z" THEN 1714640400 ELSE 1714564800

\* the href of a post's permalink anchor, tweet-extract.ts:174; the second
\* lacks the id
permalink(el) ==
    [isUrl |-> TRUE, host |-> "x.com",
     path |-> <<"/", Username, "/", "status", "/", ToString(el)>>]
brokenPermalink(el) ==
    [isUrl |-> TRUE, host |-> "x.com", path |-> <<"/", Username, "/", "status">>]

TimestampsOf(el) ==
    IF el <= MaxVaried THEN Timestamps ELSE {"2024-05-01T12:00:00.000Z"}
\* tweet-extract.ts:106-110: the social context ends with ' reposted'
RepostsOf(el) == IF el <= MaxReposted THEN BOOLEAN ELSE {FALSE}
LinksOf(el) ==
    IF el <= MaxBroken THEN {permalink(el), brokenPermalink(el)}
    ELSE {permalink(el)}

InitPage ==
    /\ now = 0
    /\ domCount = 0
    /\ marked = {}
    /\ tweetEl = NoElement
    /\ tweets = <<>>
    /\ pageStart = NoTime
    /\ pagePc = "none"
    /\ visitLog = <<>>

\* tweet-extract.ts:199: the first post element without data-extracted
unvisited(n, m) == (1 .. n) \ m
firstUnvisited(n, m) ==
    IF unvisited(n, m) = {} THEN NoElement
    ELSE CHOOSE e \in unvisited(n, m) : \A f \in unvisited(n, m) : e <= f

\* tweet-extract.ts:194: tweetEl.dataset.extracted = 'true'
markNot(m, el) == m
mark(m, el) == m \cup {el}

\* tweet-extract.ts:187: the condition of the while loop
loopCondition(el, list) == el # NoElement /\ Len(list) < MAX_TWEETS

\* tweet-extract.ts:188-190
budgetExceeded(t, start) == t - start > PAGE_BUDGET_MS

\* tweet-extract.ts:183-186: the page starts extractTweets()
PageBegin ==
    /\ pagePc = "invoked"
    /\ tweets' = <<>>
    /\ pageStart' = now
    /\ tweetEl' = IF domCount >= 1 THEN 1 ELSE NoElement
    /\ pagePc' = "loopTop"
    /\ UNCHANGED <<now, domCount, marked, visitLog>>
    /\ UNCHANGED workerVars
    /\ UNCHANGED notExtract

\* tweet-extract.ts:187, 202: the loop condition fails and the list is returned
PageReturns ==
    /\ pagePc = "loopTop"
    /\ ~loopCondition(tweetEl, tweets)
    /\ pagePc' = "returned"
    /\ UNCHANGED <<now, domCount, marked, tweetEl, tweets, pageStart, visitLog>>
    /\ UNCHANGED workerVars
    /\ UNCHANGED notExtract

\* tweet-extract.ts:188-192: throw new Error('timeout!')
PageTimesOut ==
    /\ pagePc = "loopTop"
    /\ loopCondition(tweetEl, tweets)
    /\ budgetExceeded(now, pageStart)
    /\ pagePc' = "threw"
    /\ UNCHANGED <<now, domCount, marked, tweetEl, tweets, pageStart, visitLog>>
    /\ UNCHANGED workerVars
    /\ UNCHANGED notExtract

\* tweet-extract.ts:194-195, 105-117: the element is marked and extractTweet
\* is called on it; it goes on to sleep(500)
PageExtractStarts ==
    /\ pagePc = "loopTop"
    /\ loopCondition(tweetEl, tweets)
    /\ ~budgetExceeded(now, pageStart)
    /\ marked' = mark(marked, tweetEl)
    /\ visitLog' = Append(visitLog, tweetEl)
    /\ pagePc' = "extracting"
    /\ UNCHANGED <<now, domCount, tweetEl, tweets, pageStart>>
    /\ UNCHANGED workerVars
    /\ UNCHANGED notExtract

\* tweet-extract.ts:194-199, 107-113: the element is marked, extractTweet
\* returns null for a pinned post before it awaits anything, and the next
\* element is looked up
PageSkipsPinned ==
    /\ pagePc = "loopTop"
    /\ loopCondition(tweetEl, tweets)
    /\ ~budgetExceeded(now, pageStart)
    /\ tweetEl <= MaxPinned
    /\ marked' = mark(marked, tweetEl)
    /\ visitLog' = Append(visitLog, tweetEl)
    /\ tweetEl' = firstUnvisited(domCount, marked')
    /\ UNCHANGED <<now, domCount, tweets, pageStart, pagePc>>
    /\ UNCHANGED workerVars
    /\ UNCHANGED notExtract

\* tweet-extract.ts:118-180, 196-199: extractTweet returns the post, which is
\* pushed, and the next element is looked up
PageExtractDone ==
    /\ pagePc = "extracting"
    /\ \E ts \in TimestampsOf(tweetEl), href1 \in LinksOf(tweetEl),
          rp \in RepostsOf(tweetEl) :
        tweets' = Append(tweets, [el |-> tweetEl, timestamp |-> ts, link |-> href1,
                                  repost |-> rp])
    /\ tweetEl' = firstUnvisited(domCount, marked)
    /\ pagePc' = "loopTop"
    /\ UNCHANGED <<now, domCount, marked, pageStart, visitLog>>
    /\ UNCHANGED workerVars
    /\ UNCHANGED notExtract

\* tweet-extract.ts:119-146: extractTweet throws (a part of the post is
\* missing) and so does extractTweets
PageExtractFails ==
    /\ pagePc = "extracting"
    /\ pagePc' = "threw"
    /\ UNCHANGED <<now, domCount, marked, tweetEl, tweets, pageStart, visitLog>>
    /\ UNCHANGED workerVars
    /\ UNCHANGED notExtract

\* the site appends another post element (extractTweet scrolls the current
\* one into view, tweet-extract.ts:116); one element ahead is enough for the
\* loop never to run out
PageLoadsMore ==
    /\ pagePc \in {"loopTop", "extracting"}
    /\ tweetEl # NoElement
    /\ unvisited(domCount, marked) \ {tweetEl} = {}
    /\ domCount' = domCount + 1
    /\ UNCHANGED <<now, marked, tweetEl, tweets, pageStart, pagePc, visitLog>>
    /\ UNCHANGED workerVars
    /\ UNCHANGED notExtract

-----------------------------------------------------------------------------
(* extractTweets and updateTweetsCache in the worker,                      *)
(* src/src/index.tsx:30-102 and 137-178                                    *)

Profile == "profile of NWSNewYorkNY"

Absent(empty) == [present |-> FALSE, value |-> empty]
Stored(v) == [present |-> TRUE, value |-> v]

\* index.tsx:9-12: an ExtractResult
ExtractResult(profile, list) == [profile |-> profile, tweets |-> list]

EmptyStore ==
    [posts |-> {}, profile |-> Absent(""),
     snapshot |-> Absent(ExtractResult("", <<>>)), timeline |-> Absent(<<>>)]

NotEvaluated == [done |-> FALSE, list |-> <<>>, finished |-> FALSE, at |-> NoTime]

InitWorker ==
    /\ wPc = "setup"
    /\ raceStart = NoTime
    /\ wTweets = <<>>
    /\ wOutcome = "none"
    /\ postPuts = <<>>
    /\ keyPuts = {}
    /\ store = EmptyStore
    /\ evaluated = NotEvaluated

InitExtract == InitPage /\ InitWorker

\* index.tsx:62-64: the comparator handed to Array.prototype.sort
comparatorAscending(a, b) == DateParse(a.timestamp) - DateParse(b.timestamp)
comparator(a, b) == DateParse(b.timestamp) - DateParse(a.timestamp)

\* Array.prototype.sort is stable: an element goes in front of the first one
\* the comparator places after it
RECURSIVE Insert(_, _)
Insert(x, s) ==
    IF s = <<>> THEN <<x>>
    ELSE IF comparator(Head(s), x) > 0 THEN <<x>> \o s
    ELSE <<Head(s)>> \o Insert(x, Tail(s))

RECURSIVE SortTweets(_)
SortTweets(list) ==
    IF list = <<>> THEN <<>>
    ELSE Insert(list[Len(list)], SortTweets(SubSeq(list, 1, Len(list) - 1)))

\* index.tsx:56: sleep(60_000) has resolved
timerNeverDue(t, armed) == FALSE
timerDue(t, armed) == t - armed >= RACE_TIMEOUT_MS

\* index.tsx:137-139
tweetDataKeyAsIs(username, id) == <<"tweet/u:", username, "/id:", id>>
tweetDataKey(username, id) ==
    <<"tweet/u:", [i \in DOMAIN username |-> ToLowerCase(username[i])], "/id:", id>>

\* index.tsx:156-157: the posts whose link gives a username and an id
explodesUsernameOnly(tweet) == ~Falsy(tweetLinkExplode(tweet.link)[1])
explodes(tweet) ==
    LET pair == tweetLinkExplode(tweet.link)
    IN  ~Falsy(pair[1]) /\ ~Falsy(pair[2])
keyOf(tweet) ==
    LET pair == tweetLinkExplode(tweet.link)
    IN  tweetDataKey(pair[1], pair[2])

\* index.tsx:163-164: the put of one post body
\* index.tsx:162: delete tweet.repost
withoutRepost(tweet) ==
    [el |-> tweet.el, timestamp |-> tweet.timestamp, link |-> tweet.link]
withoutReposts(list) == [i \in DOMAIN list |-> withoutRepost(list[i])]

\* index.tsx:165: the kind of the pointer
ptrKindPost(isRepost) == "post"
ptrKind(isRepost) == IF isRepost THEN "repost" ELSE "post"

postPut(tweet) == [key |-> keyOf(tweet), body |-> withoutRepost(tweet)]

\* index.tsx:154-168: the pointers of the timeline, in the order of the list
timelineOf(list) ==
    [i \in DOMAIN list |-> <<ptrKind(list[i].repost), keyOf(list[i])>>]

\* index.tsx:170-174: the value each of the three keys is given; the posts of
\* `result` are the objects line 162 has deleted the flag from
keyValue(k) ==
    IF k = "profile" THEN Stored(Profile)
    ELSE IF k = "snapshot"
    THEN Stored(ExtractResult(Profile, withoutReposts(wTweets)))
    ELSE Stored(timelineOf(wTweets))

\* KV put: the entry of the key is replaced
putAllOnly(posts, puts) == {puts[i] : i \in DOMAIN puts}
putAll(posts, puts) ==
    {p \in posts : \A i \in DOMAIN puts : puts[i].key # p.key}
    \cup {puts[i] : i \in DOMAIN puts}

\* the clock advances while the loop runs or the race is on; the worker
\* awaits nothing but the race, so a timer that is due runs before the clock
\* moves on
Tick ==
    /\ pagePc \in {"loopTop", "extracting"}
       \/ (wPc = "racing" /\ pagePc \in {"returned", "threw"})
    /\ now < MaxTicks * Quantum
    /\ ~(wPc = "racing" /\ timerDue(now, raceStart))
    /\ now' = IF wPc = "racing" /\ timerDue(now + Quantum, raceStart)
              THEN raceStart + RACE_TIMEOUT_MS
              ELSE now + Quantum
    /\ UNCHANGED <<domCount, marked, tweetEl, tweets, pageStart, pagePc, visitLog>>
    /\ UNCHANGED workerVars
    /\ UNCHANGED notExtract

\* index.tsx:34-56: the page is opened and prepared, a post element is
\* there, and the race between sleep(60_000) and extractTweets() begins
SetupOk ==
    /\ wPc = "setup"
    /\ domCount' = 1
    /\ pagePc' = "invoked"
    /\ raceStart' = now
    /\ wPc' = "racing"
    /\ UNCHANGED <<now, marked, tweetEl, tweets, pageStart, visitLog>>
    /\ UNCHANGED <<wTweets, wOutcome, postPuts, keyPuts, store, evaluated>>
    /\ UNCHANGED notExtract

\* index.tsx:34-52, 97-98: one of the steps before the race throws
SetupFails ==
    /\ wPc = "setup"
    /\ wOutcome' = "failed"
    /\ wPc' = "closing"
    /\ UNCHANGED pageVars
    /\ UNCHANGED <<raceStart, wTweets, postPuts, keyPuts, store, evaluated>>
    /\ UNCHANGED notExtract

\* index.tsx:56-64: the page's list wins the race and is sorted
EvaluateFulfils ==
    /\ wPc = "racing"
    /\ pagePc = "returned"
    /\ wTweets' = SortTweets(tweets)
    /\ wPc' = "unwrapping"
    /\ evaluated' = [done |-> TRUE, list |-> tweets,
                     finished |-> ~loopCondition(tweetEl, tweets), at |-> now]
    /\ UNCHANGED pageVars
    /\ UNCHANGED <<raceStart, wOutcome, postPuts, keyPuts, store>>
    /\ UNCHANGED notExtract

\* index.tsx:56, 97-98: the page's extractTweets threw
EvaluateRejects ==
    /\ wPc = "racing"
    /\ pagePc = "threw"
    /\ wOutcome' = "failed"
    /\ wPc' = "closing"
    /\ UNCHANGED pageVars
    /\ UNCHANGED <<raceStart, wTweets, postPuts, keyPuts, store, evaluated>>
    /\ UNCHANGED notExtract

\* index.tsx:56-59: sleep(60_000) wins the race: `tweets` is undefined
TimerWins ==
    /\ wPc = "racing"
    /\ timerDue(now, raceStart)
    /\ wOutcome' = "failed"
    /\ wPc' = "closing"
    /\ UNCHANGED pageVars
    /\ UNCHANGED <<raceStart, wTweets, postPuts, keyPuts, store, evaluated>>
    /\ UNCHANGED notExtract

\* index.tsx:71-96: every link of every post is unwrapped (SpecLink) and
\* the result is returned
UnwrapOk ==
    /\ wPc = "unwrapping"
    /\ wOutcome' = "ok"
    /\ wPc' = "closing"
    /\ UNCHANGED pageVars
    /\ UNCHANGED <<raceStart, wTweets, postPuts, keyPuts, store, evaluated>>
    /\ UNCHANGED notExtract

\* index.tsx:83, 97-98: an unwrapLink rejects
UnwrapFails ==
    /\ wPc = "unwrapping"
    /\ wOutcome' = "failed"
    /\ wPc' = "closing"
    /\ UNCHANGED pageVars
    /\ UNCHANGED <<raceStart, wTweets, postPuts, keyPuts, store, evaluated>>
    /\ UNCHANGED notExtract

\* index.tsx:99-101, 153-168, 175-177: the page is closed, which is the end
\* of everything in it, and updateTweetsCache goes on: after a failure it logs; after a success it
\* puts the body of every post whose link explodes, and gives up if the link
\* of one does not
PageClosed ==
    /\ wPc = "closing"
    /\ pagePc' = "closed"
    /\ domCount' = 0
    /\ marked' = {}
    /\ tweetEl' = NoElement
    /\ tweets' = <<>>
    /\ pageStart' = NoTime
    /\ visitLog' = <<>>
    /\ IF wOutcome = "ok"
       THEN /\ postPuts' = [i \in DOMAIN SelectSeq(wTweets, explodes) |->
                               postPut(SelectSeq(wTweets, explodes)[i])]
            /\ wPc' = IF \A i \in DOMAIN wTweets : explodes(wTweets[i])
                      THEN "putPosts" ELSE "done"
       ELSE /\ postPuts' = postPuts
            /\ wPc' = "done"
    /\ UNCHANGED now
    /\ UNCHANGED <<raceStart, wTweets, wOutcome, keyPuts, store, evaluated>>
    /\ UNCHANGED notExtract

\* index.tsx:164-174: the puts of the post bodies are acknowledged; if all
\* posts had one, the three keys of the profile are put
PostsStored ==
    /\ wPc = "putPosts" \/ postPuts # <<>>
    /\ store' = [store EXCEPT !.posts = putAll(@, postPuts)]
    /\ postPuts' = <<>>
    /\ IF wPc = "putPosts"
       THEN /\ keyPuts' = {"profile", "snapshot", "timeline"}
            /\ wPc' = "putKeys"
       ELSE UNCHANGED <<keyPuts, wPc>>
    /\ UNCHANGED pageVars
    /\ UNCHANGED <<raceStart, wTweets, wOutcome, evaluated>>
    /\ UNCHANGED notExtract

\* index.tsx:170-174: one of the three puts is acknowledged
KeyStored(k) ==
    /\ wPc = "putKeys"
    /\ k \in keyPuts
    /\ store' = [store EXCEPT ![k] = keyValue(k)]
    /\ keyPuts' = keyPuts \ {k}
    /\ wPc' = IF keyPuts' = {} THEN "done" ELSE wPc
    /\ UNCHANGED pageVars
    /\ UNCHANGED <<raceStart, wTweets, wOutcome, postPuts, evaluated>>
    /\ UNCHANGED notExtract

ProfileStored == KeyStored("profile")
SnapshotStored == KeyStored("snapshot")
TimelineStored == KeyStored("timeline")

NextExtract ==
    \/ PageBegin
    \/ PageReturns
    \/ PageTimesOut
    \/ PageExtractStarts
    \/ PageSkipsPinned
    \/ PageExtractDone
    \/ PageExtractFails
    \/ PageLoadsMore
    \/ Tick
    \/ SetupOk
    \/ SetupFails
    \/ EvaluateFulfils
    \/ EvaluateRejects
    \/ TimerWins
    \/ UnwrapOk
    \/ UnwrapFails
    \/ PageClosed
    \/ PostsStored
    \/ ProfileStored
    \/ SnapshotStored
    \/ TimelineStored

-----------------------------------------------------------------------------
(* getStructure and extractTextChunks, src/src/tweet-extract.ts:6-17, 61-103 *)

MaxChildren == 2    \* el has at most this many child nodes

\* A string is a sequence of characters; a node has a name, child nodes,
\* character data (a text node) and the attributes the classifier reads.
TextNode(s) ==
    [nodeName |-> "#text", kids |-> <<>>, data |-> s, href |-> "", src |-> ""]
Elem(name, kids) ==
    [nodeName |-> name, kids |-> kids, data |-> <<>>, href |-> "", src |-> ""]
Anchor(kids, href1) ==
    [nodeName |-> "A", kids |-> kids, data |-> <<>>, href |-> href1, src |-> ""]
Image(src1) ==
    [nodeName |-> "IMG", kids |-> <<>>, data |-> <<>>, href |-> "", src |-> src1]

EmojiSrc == "https://abs-0.twimg.com/emoji/v2/svg/2600.svg"
PhotoSrc == "https://pbs.twimg.com/media/photo.jpg"
LinkHref == "https://t.co/abc"
TagHref == "https://x.com/hashtag/a"

Texts ==
    {<<>>, <<"a">>, <<"@", "a">>, <<" ", "@", "a">>, <<"#", "a">>, <<" ", "#", "a">>}

\* the child nodes of the model: the shapes of the switch, with texts that
\* pass and fail the tests inside the cases, and shapes outside the switch
ChildNodes ==
    {Elem("SPAN", <<TextNode(t)>>) : t \in Texts}
    \cup {Elem("DIV", <<Elem("SPAN", <<Anchor(<<TextNode(t)>>, LinkHref)>>)>>) :
              t \in Texts \ {<<>>}}
    \cup {Elem("SPAN", <<Anchor(<<TextNode(t)>>, TagHref)>>) : t \in Texts \ {<<>>}}
    \cup {Anchor(<<>>, LinkHref),
          Anchor(<<TextNode(<<"a">>)>>, LinkHref),
          Anchor(<<Elem("SPAN", <<TextNode(<<"a">>)>>), TextNode(<<"a">>)>>, LinkHref),
          Image(EmojiSrc), Image(PhotoSrc),
          TextNode(<<"a">>),
          Elem("DIV", <<TextNode(<<"a">>)>>),
          Elem("SPAN", <<TextNode(<<"a">>), TextNode(<<"a">>)>>),
          Elem("SPAN", <<>>)}

\* Node.textContent: the text of the node's descendants, in order
RECURSIVE textContent(_)
RECURSIVE textOfAll(_)
textOfAll(nodes) ==
    IF nodes = <<>> THEN <<>>
    ELSE textContent(Head(nodes)) \o textOfAll(Tail(nodes))
textContent(n) == IF n.nodeName = "#text" THEN n.data ELSE textOfAll(n.kids)

\* tweet-extract.ts:6-17: the node names down the chain of only children;
\* join('::') of names that hold no colon loses nothing, so the structure is
\* kept as the sequence of names
RECURSIVE getStructure(_)
getStructure(n) ==
    <<n.nodeName>> \o (IF Len(n.kids) # 1 THEN <<>> ELSE getStructure(n.kids[1]))

\* String.prototype.trim on the strings of the model
RECURSIVE trimStart(_)
trimStart(s) == IF s # <<>> /\ Head(s) = " " THEN trimStart(Tail(s)) ELSE s
RECURSIVE trimEnd(_)
trimEnd(s) ==
    IF s # <<>> /\ s[Len(s)] = " " THEN trimEnd(SubSeq(s, 1, Len(s) - 1)) ELSE s
trim(s) == trimEnd(trimStart(s))

startsWith(s, c) == s # <<>> /\ s[1] = c

\* tweet-extract.ts:92: imgEl.src.includes('/emoji/')
includesEmojiAlways(src1) == TRUE
includesEmoji(src1) == src1 = EmojiSrc

Push(chunk) == [does |-> "push", chunk |-> chunk]
Skip == [does |-> "skip", chunk |-> [type |-> "none"]]
Throw == [does |-> "throw", chunk |-> [type |-> "none"]]

\* tweet-extract.ts:64-100: the body of the loop for one child node
classify(ttcel) ==
    LET struct == getStructure(ttcel)
    IN  IF struct = <<"SPAN", "#text">>
        THEN IF textContent(ttcel) # <<>>
             THEN Push([type |-> "text", content |-> textContent(ttcel)])
             ELSE Skip
        ELSE IF struct = <<"DIV", "SPAN", "A", "#text">>
        THEN IF startsWith(trim(textContent(ttcel)), "@")
             THEN Push([type |-> "mention", user |-> trim(textContent(ttcel)),
                        content |-> textContent(ttcel)])
             ELSE Throw
        ELSE IF struct = <<"SPAN", "A", "#text">>
        THEN IF startsWith(textContent(ttcel.kids[1]), "#")
             THEN Push([type |-> "hashtag", hashtag |-> textContent(ttcel.kids[1]),
                        link |-> ttcel.kids[1].href])
             ELSE Throw
        ELSE IF struct = <<"A">>
        THEN Push([type |-> "link", href |-> ttcel.href])
        ELSE IF struct = <<"IMG">>
        THEN IF includesEmoji(ttcel.src)
             THEN Push([type |-> "emoji", content |-> "alt", description |-> "title"])
             ELSE Throw
        ELSE Throw

InitChunks ==
    /\ ctNodes \in SeqsUpTo(ChildNodes, MaxChildren)
    /\ ctIdx = 1
    /\ ctChunks = <<>>
    /\ ctPc = "loop"

IdleChunks ==
    /\ ctNodes = <<>>
    /\ ctIdx = 1
    /\ ctChunks = <<>>
    /\ ctPc = "idle"

\* tweet-extract.ts:63-101: one iteration of the loop
ClassifyChild ==
    /\ ctPc = "loop"
    /\ ctIdx <= Len(ctNodes)
    /\ LET verdict == classify(ctNodes[ctIdx])
       IN  IF verdict.does = "throw"
           THEN /\ ctPc' = "threw"
                /\ UNCHANGED <<ctIdx, ctChunks>>
           ELSE /\ ctChunks' = IF verdict.does = "push"
                               THEN Append(ctChunks, verdict.chunk)
                               ELSE ctChunks
                /\ ctIdx' = ctIdx + 1
                /\ UNCHANGED ctPc
    /\ UNCHANGED ctNodes
    /\ UNCHANGED notChunks

\* tweet-extract.ts:102
ChunksReturned ==
    /\ ctPc = "loop"
    /\ ctIdx > Len(ctNodes)
    /\ ctPc' = "returned"
    /\ UNCHANGED <<ctNodes, ctIdx, ctChunks>>
    /\ UNCHANGED notChunks

NextChunks ==
    \/ ClassifyChild
    \/ ChunksReturned

-----------------------------------------------------------------------------
(* updateTweetsCache with every put on its own, src/src/index.tsx:151-178,  *)
(* and the feed request, src/src/index.tsx:545-589, 262-442                 *)

MaxPosts == 2       \* the refresh has at most this many posts

OldProfile == "profile of NWSNewYorkNY, before"
OldEl == MaxPosts + 1   \* a post only the refresh before has seen

\* the posts a refresh may have extracted: elements 1..MaxPosts, each with a
\* good or a broken permalink, a repost or not
TimestampOf(el) ==
    IF el % 2 = 0 THEN "2024-05-02T09:00:00.000Z" ELSE "2024-05-01T12:00:00.000Z"
TweetsOf(el) ==
    [el : {el}, timestamp : {TimestampOf(el)},
     link : {permalink(el), brokenPermalink(el)}, repost : BOOLEAN]

\* the lists extractTweets resolves with: sorted, no element twice
DistinctEls(list) == \A i, j \in DOMAIN list : i # j => list[i].el # list[j].el
CacheLists ==
    {SortTweets(list) :
        list \in {l \in SeqsUpTo(UNION {TweetsOf(el) : el \in 1 .. MaxPosts}, MaxPosts) :
                     DistinctEls(l)}}

\* what the refresh before has left: element 1 as a repost and OldEl
OldTweets ==
    <<[el |-> OldEl, timestamp |-> "2024-05-01T12:00:00.000Z",
       link |-> permalink(OldEl), repost |-> FALSE],
      [el |-> 1, timestamp |-> "2024-05-01T12:00:00.000Z",
       link |-> permalink(1), repost |-> TRUE]>>
OldStore ==
    [posts |-> {postPut(OldTweets[i]) : i \in DOMAIN OldTweets},
     profile |-> Stored(OldProfile),
     snapshot |-> Stored(ExtractResult(OldProfile, withoutReposts(OldTweets))),
     timeline |-> Stored(timelineOf(OldTweets))]

NoResponse == [status |-> "none", profile |-> "", items |-> <<>>]
Raised == [status |-> "error", profile |-> "", items |-> <<>>]
Unavailable == [status |-> "503 no tweets available", profile |-> "", items |-> <<>>]

IdleRead ==
    /\ rPc = "idle"
    /\ rFormat = ""
    /\ rPending = {}
    /\ rTimeline = Absent(<<>>)
    /\ rProfile = Absent("")
    /\ rResponse = NoResponse

IdleCache ==
    /\ settled = {}
    /\ failedPuts = {}
    /\ store0 = EmptyStore
    /\ IdleRead

\* index.tsx:153: extractTweets has settled and its page is closing
InitCache ==
    /\ InitPage
    /\ wPc = "closing"
    /\ raceStart = 0
    /\ wOutcome \in {"ok", "failed"}
    /\ wTweets \in IF wOutcome = "ok" THEN CacheLists ELSE {<<>>}
    /\ evaluated = IF wOutcome = "ok"
                   THEN [done |-> TRUE, list |-> wTweets, finished |-> TRUE, at |-> 0]
                   ELSE NotEvaluated
    /\ postPuts = <<>>
    /\ keyPuts = {}
    /\ store \in {EmptyStore, OldStore}
    /\ settled = {}
    /\ failedPuts = {}
    /\ store0 = store
    /\ IdleRead

\* index.tsx:154, 168: Promise.all resolves when every put is acknowledged
allAcknowledgedOrNot(done, puts) == TRUE
allAcknowledged(done, puts) == done = DOMAIN puts

\* index.tsx:164: the store acknowledges the put of one post body
PostAcked(i) ==
    /\ i \in DOMAIN postPuts \ settled
    /\ store' = [store EXCEPT !.posts = putAll(@, <<postPuts[i]>>)]
    /\ settled' = settled \cup {i}
    /\ UNCHANGED <<failedPuts, store0>>
    /\ UNCHANGED <<wPc, raceStart, wTweets, wOutcome, postPuts, keyPuts, evaluated>>
    /\ UNCHANGED <<pageVars, readVars>>
    /\ UNCHANGED notCache

\* index.tsx:164, 175-177: the put of one post body fails; Promise.all
\* rejects and updateTweetsCache logs
PostPutFails(i) ==
    /\ i \in DOMAIN postPuts \ settled
    /\ settled' = settled \cup {i}
    /\ failedPuts' = failedPuts \cup {i}
    /\ wPc' = IF wPc = "putPosts" THEN "done" ELSE wPc
    /\ UNCHANGED store0
    /\ UNCHANGED <<raceStart, wTweets, wOutcome, postPuts, keyPuts, store, evaluated>>
    /\ UNCHANGED <<pageVars, readVars>>
    /\ UNCHANGED notCache

\* index.tsx:168-174: the timeline is complete and the three keys are put
PostsDone ==
    /\ wPc = "putPosts"
    /\ allAcknowledged(settled, postPuts)
    /\ keyPuts' = {"profile", "snapshot", "timeline"}
    /\ wPc' = "putKeys"
    /\ UNCHANGED putVars
    /\ UNCHANGED <<raceStart, wTweets, wOutcome, postPuts, store, evaluated>>
    /\ UNCHANGED <<pageVars, readVars>>
    /\ UNCHANGED notCache

\* index.tsx:318, 410: `t.repost` of a post that may lack the flag
truthyRepost(t) == "repost" \in DOMAIN t /\ t.repost
notRepost(t) == ~truthyRepost(t)

\* index.tsx:322-346 and 427-435: what a feed shows of one post
feedItem(t, reposted) ==
    [id |-> t.link, updated |-> t.timestamp, reposted |-> reposted]

\* index.tsx:262-397: tweets.tweets[0].timestamp raises on an empty list
\* (265), a link that does not explode raises (313-316), a repost is given
\* the 'reposted' title (318-320)
renderAtomFeed(result) ==
    IF result.tweets = <<>> THEN Raised
    ELSE IF \E i \in DOMAIN result.tweets : ~explodes(result.tweets[i]) THEN Raised
    ELSE [status |-> "200", profile |-> result.profile,
          items |-> [i \in DOMAIN result.tweets |->
                        feedItem(result.tweets[i], truthyRepost(result.tweets[i]))]]

\* index.tsx:399-442: reposts are left out (410-412)
renderJSONFeed(result) ==
    [status |-> "200", profile |-> result.profile,
     items |-> [i \in DOMAIN SelectSeq(result.tweets, notRepost) |->
                   feedItem(SelectSeq(result.tweets, notRepost)[i], FALSE)]]

\* index.tsx:504-507, 546
renderer(format, result) ==
    IF format = "rss" THEN renderAtomFeed(result) ELSE renderJSONFeed(result)

\* index.tsx:560-569: the post a pointer stands for; a pointer whose body is
\* missing is broken
bodiesAt(posts, key) == {p.body : p \in {q \in posts : q.key = key}}
broken(posts, ptr) == bodiesAt(posts, ptr[2]) = {}
reconstruct(posts, ptr) ==
    LET tweet == CHOOSE b \in bodiesAt(posts, ptr[2]) : TRUE
    IN  [el |-> tweet.el, timestamp |-> tweet.timestamp, link |-> tweet.link,
         repost |-> (ptr[1] = "repost")]

\* index.tsx:557-580: the feed read through the pointers
viaPointers(format, posts, timeline, profile) ==
    IF \E i \in DOMAIN timeline : broken(posts, timeline[i]) THEN Raised
    ELSE renderer(format,
                  ExtractResult(profile,
                                [i \in DOMAIN timeline |-> reconstruct(posts, timeline[i])]))

\* index.tsx:581-587: the feed read from the legacy snapshot
viaSnapshot(format, snapshot) ==
    IF ~snapshot.present THEN Unavailable ELSE renderer(format, snapshot.value)

\* index.tsx:545-556: a feed request of a tracked username issues the gets of
\* the timeline and the profile
FeedRequest(format) ==
    /\ rPc = "idle"
    /\ rPc' = "reading"
    /\ rFormat' = format
    /\ rPending' = {"timeline", "profile"}
    /\ UNCHANGED <<rTimeline, rProfile, rResponse>>
    /\ UNCHANGED <<pageVars, workerVars, putVars>>
    /\ UNCHANGED notCache

FeedRssRequest == FeedRequest("rss")
FeedJsonRequest == FeedRequest("json")

\* index.tsx:554: the store serves the get of the timeline
TimelineServed ==
    /\ "timeline" \in rPending
    /\ rTimeline' = store.timeline
    /\ rPending' = rPending \ {"timeline"}
    /\ UNCHANGED <<rPc, rFormat, rProfile, rResponse>>
    /\ UNCHANGED <<pageVars, workerVars, putVars>>
    /\ UNCHANGED notCache

\* index.tsx:555: the store serves the get of the profile
ProfileServed ==
    /\ "profile" \in rPending
    /\ rProfile' = store.profile
    /\ rPending' = rPending \ {"profile"}
    /\ UNCHANGED <<rPc, rFormat, rTimeline, rResponse>>
    /\ UNCHANGED <<pageVars, workerVars, putVars>>
    /\ UNCHANGED notCache

\* index.tsx:557-580: both are there; the bodies are fetched and rendered
ServePointers ==
    /\ rPc = "reading"
    /\ rPending = {}
    /\ rTimeline.present /\ rProfile.present
    /\ rResponse' = viaPointers(rFormat, store.posts, rTimeline.value, rProfile.value)
    /\ rPc' = "done"
    /\ UNCHANGED <<rFormat, rPending, rTimeline, rProfile>>
    /\ UNCHANGED <<pageVars, workerVars, putVars>>
    /\ UNCHANGED notCache

\* index.tsx:581-587: one is missing; the snapshot is fetched and rendered,
\* or the answer is 503
ServeSnapshot ==
    /\ rPc = "reading"
    /\ rPending = {}
    /\ ~(rTimeline.present /\ rProfile.present)
    /\ rResponse' = viaSnapshot(rFormat, store.snapshot)
    /\ rPc' = "done"
    /\ UNCHANGED <<rFormat, rPending, rTimeline, rProfile>>
    /\ UNCHANGED <<pageVars, workerVars, putVars>>
    /\ UNCHANGED notCache

NextCache ==
    \/ PageClosed
    \/ \E i \in 1 .. MaxPosts : PostAcked(i)
    \/ \E i \in 1 .. MaxPosts : PostPutFails(i)
    \/ PostsDone
    \/ ProfileStored
    \/ SnapshotStored
    \/ TimelineStored
    \/ FeedRssRequest
    \/ FeedJsonRequest
    \/ TimelineServed
    \/ ProfileServed
    \/ ServePointers
    \/ ServeSnapshot

-----------------------------------------------------------------------------
(* One batch: reportHealthcheck, src/src/hc.ts:1-11 and 48-69, around the   *)
(* refreshes of src/src/index.tsx:523-531 and 151-178                       *)

PLIMIT == 5     \* index.tsx:525
UNWRAP_LIMIT == 3   \* index.tsx:71
MaxLinks == 4   \* the posts of a profile hold at most this many link chunks

\* index.tsx:502
allowedUsernames == {"NWSNewYorkNY", "NWSAnchorage", "NWSMelbourne"}

\* how the try block of updateTweetsCache can end
RefreshOutcomes ==
    {"ok", "extraction error", "timeout", "unresolved link", "bad permalink"}

NotStarted == [pc |-> "idle", outcome |-> "none", wrote |-> FALSE,
               queued |-> 0, active |-> 0]

IdleBatch ==
    /\ hcId = ""
    /\ hcStart = "none"
    /\ hcFinish = "none"
    /\ hcFail = "none"
    /\ bPc = "idle"
    /\ prof = [u \in allowedUsernames |-> NotStarted]

\* index.tsx:526: reportHealthcheck is called
InitBatch ==
    /\ hcId \in {"configured", ""}
    /\ hcStart = "none"
    /\ hcFinish = "none"
    /\ hcFail = "none"
    /\ bPc = "starting"
    /\ prof = [u \in allowedUsernames |-> NotStarted]

\* hc.ts:49-52, 61-64, 72-75: without an id no signal is sent
send(id) == IF id = "" THEN "skipped" ELSE "sending"

\* hc.ts:2: `await reportStart(...)` has settled (when it threw, the batch
\* has ended there)
mayBeginEarly(start) == TRUE
mayBegin(start) == start \in {"delivered", "skipped", "failed"}

\* hc.ts:65-68: `if (!ok) throw`
throwsNever(ok) == FALSE
throws(ok) == ~ok

\* p-limit: a queued task is started while fewer than `limit` are running
hasSlotAlways(active, limit) == TRUE
hasSlot(active, limit) == active < limit

\* index.tsx:152, 175-177: the catch of updateTweetsCache
caughtNever(outcome) == FALSE
caught(outcome) == TRUE

\* the tasks of `sem` that have started and not settled
running == {u \in allowedUsernames : prof[u].pc \in {"running", "resolving"}}

\* hc.ts:2, 60-65: reportStart is entered
ReportStart ==
    /\ bPc = "starting"
    /\ hcStart = "none"
    /\ hcStart' = send(hcId)
    /\ UNCHANGED <<hcId, hcFinish, hcFail, bPc, prof>>
    /\ UNCHANGED notBatch

\* hc.ts:65: reliableFetch returned true: the service has answered ok
StartDelivered ==
    /\ hcStart = "sending"
    /\ hcStart' = "delivered"
    /\ UNCHANGED <<hcId, hcFinish, hcFail, bPc, prof>>
    /\ UNCHANGED notBatch

\* hc.ts:66-68: reportStart throws, before the try of reportHealthcheck
StartNotDelivered ==
    /\ hcStart = "sending"
    /\ hcStart' = "failed"
    /\ bPc' = IF throws(FALSE) THEN "rejected" ELSE bPc
    /\ UNCHANGED <<hcId, hcFinish, hcFail, prof>>
    /\ UNCHANGED notBatch

\* hc.ts:4, index.tsx:527: fn() hands every username to the limiter
BeginRefreshes ==
    /\ bPc = "starting"
    /\ mayBegin(hcStart)
    /\ bPc' = "refreshing"
    /\ UNCHANGED <<hcId, hcStart, hcFinish, hcFail, prof>>
    /\ UNCHANGED notBatch

\* index.tsx:525-527: the limiter starts updateTweetsCache of a username
ProfileStarts(u) ==
    /\ bPc = "refreshing"
    /\ prof[u].pc = "idle"
    /\ hasSlot(Cardinality(running), PLIMIT)
    /\ prof' = [prof EXCEPT ![u].pc = "running"]
    /\ UNCHANGED <<hcId, hcStart, hcFinish, hcFail, bPc>>
    /\ UNCHANGED notBatch

\* index.tsx:151-178: updateTweetsCache of a username settles with an
\* outcome: it has written its keys, or its failure is caught and logged; a
\* failure that were not caught would reject Promise.all and reach the catch
\* of reportHealthcheck (hc.ts:7-9)
settle(u, outcome, queued, active) ==
    IF outcome = "ok" \/ caught(outcome)
    THEN /\ prof' = [prof EXCEPT ![u] = [pc |-> "done", outcome |-> outcome,
                                         wrote |-> (outcome = "ok"),
                                         queued |-> queued, active |-> active]]
         /\ UNCHANGED <<bPc, hcFail>>
    ELSE /\ prof' = [prof EXCEPT ![u] = [pc |-> "rejected", outcome |-> outcome,
                                         wrote |-> FALSE,
                                         queued |-> queued, active |-> active]]
         /\ bPc' = IF bPc = "refreshing" THEN "rejected" ELSE bPc
         /\ hcFail' = IF bPc = "refreshing" THEN send(hcId) ELSE hcFail

\* index.tsx:32-59, 97-98: the page fails or the race is lost before any
\* link is resolved
ExtractionFails(u, outcome) ==
    /\ prof[u].pc = "running"
    /\ outcome \in {"extraction error", "timeout"}
    /\ settle(u, outcome, 0, 0)
    /\ UNCHANGED <<hcId, hcStart, hcFinish>>
    /\ UNCHANGED notBatch

\* index.tsx:71-92: the posts are extracted; every link chunk is handed to
\* maxUnwrap, the other chunks resolve at once
LinksQueued(u, n) ==
    /\ prof[u].pc = "running"
    /\ prof' = [prof EXCEPT ![u].pc = "resolving", ![u].queued = n]
    /\ UNCHANGED <<hcId, hcStart, hcFinish, hcFail, bPc>>
    /\ UNCHANGED notBatch

\* index.tsx:82-83: maxUnwrap starts a queued unwrapLink
LinkStarts(u) ==
    /\ prof[u].queued > 0
    /\ hasSlot(prof[u].active, UNWRAP_LIMIT)
    /\ prof' = [prof EXCEPT ![u].queued = @ - 1, ![u].active = @ + 1]
    /\ UNCHANGED <<hcId, hcStart, hcFinish, hcFail, bPc>>
    /\ UNCHANGED notBatch

\* index.tsx:83-87: an unwrapLink returns and its slot is free again
LinkResolved(u) ==
    /\ prof[u].active > 0
    /\ prof' = [prof EXCEPT ![u].active = @ - 1]
    /\ UNCHANGED <<hcId, hcStart, hcFinish, hcFail, bPc>>
    /\ UNCHANGED notBatch

\* index.tsx:83, 97-98: an unwrapLink throws and its slot is free again; the
\* first to do so rejects Promise.all and the refresh of the profile fails,
\* while the links the limiter still holds go on
LinkFails(u) ==
    /\ prof[u].active > 0
    /\ IF prof[u].pc = "resolving"
       THEN settle(u, "unresolved link", prof[u].queued, prof[u].active - 1)
       ELSE /\ prof' = [prof EXCEPT ![u].active = @ - 1]
            /\ UNCHANGED <<bPc, hcFail>>
    /\ UNCHANGED <<hcId, hcStart, hcFinish>>
    /\ UNCHANGED notBatch

\* index.tsx:154-177: every link is resolved; the posts and the keys are
\* put, or a permalink does not explode
ProfileEnds(u, outcome) ==
    /\ prof[u].pc = "resolving"
    /\ prof[u].queued = 0 /\ prof[u].active = 0
    /\ outcome \in {"ok", "bad permalink"}
    /\ settle(u, outcome, 0, 0)
    /\ UNCHANGED <<hcId, hcStart, hcFinish>>
    /\ UNCHANGED notBatch

\* hc.ts:4-6: Promise.all has resolved; reportFinish is handed to
\* ctx.waitUntil and the batch returns
BatchDone ==
    /\ bPc = "refreshing"
    /\ \A u \in allowedUsernames : prof[u].pc = "done"
    /\ hcFinish' = send(hcId)
    /\ bPc' = "finished"
    /\ UNCHANGED <<hcId, hcStart, hcFail, prof>>
    /\ UNCHANGED notBatch

\* hc.ts:54: reliableFetch of the success ping returned true
FinishDelivered ==
    /\ hcFinish = "sending"
    /\ hcFinish' = "delivered"
    /\ UNCHANGED <<hcId, hcStart, hcFail, bPc, prof>>
    /\ UNCHANGED notBatch

\* hc.ts:55-57: reportFinish throws inside ctx.waitUntil
FinishNotDelivered ==
    /\ hcFinish = "sending"
    /\ hcFinish' = "failed"
    /\ UNCHANGED <<hcId, hcStart, hcFail, bPc, prof>>
    /\ UNCHANGED notBatch

NextBatch ==
    \/ ReportStart
    \/ StartDelivered
    \/ StartNotDelivered
    \/ BeginRefreshes
    \/ \E u \in allowedUsernames : ProfileStarts(u)
    \/ \E u \in allowedUsernames, outcome \in RefreshOutcomes : ExtractionFails(u, outcome)
    \/ \E u \in allowedUsernames, n \in 0 .. MaxLinks : LinksQueued(u, n)
    \/ \E u \in allowedUsernames : LinkStarts(u)
    \/ \E u \in allowedUsernames : LinkResolved(u)
    \/ \E u \in allowedUsernames : LinkFails(u)
    \/ \E u \in allowedUsernames, outcome \in RefreshOutcomes : ProfileEnds(u, outcome)
    \/ BatchDone
    \/ FinishDelivered
    \/ FinishNotDelivered

-----------------------------------------------------------------------------
(* Specifications: one component runs, the others are idle                *)

Init ==
    /\ InitFetch /\ InitFlight /\ IdleLink /\ IdleExplode /\ InitExtract
    /\ IdleChunks /\ IdleCache /\ IdleBatch
InitWithLink ==
    /\ InitFetch /\ InitFlight /\ InitLink /\ IdleExplode /\ InitExtract
    /\ IdleChunks /\ IdleCache /\ IdleBatch
InitWithPermalink ==
    /\ InitFetch /\ InitFlight /\ IdleLink /\ InitExplode /\ InitExtract
    /\ IdleChunks /\ IdleCache /\ IdleBatch
InitWithNodes ==
    /\ InitFetch /\ InitFlight /\ IdleLink /\ IdleExplode /\ InitExtract
    /\ InitChunks /\ IdleCache /\ IdleBatch
InitWithResult ==
    /\ InitFetch /\ InitFlight /\ IdleLink /\ IdleExplode /\ IdleChunks
    /\ InitCache /\ IdleBatch
InitWithBatch ==
    /\ InitFetch /\ InitFlight /\ IdleLink /\ IdleExplode /\ InitExtract
    /\ IdleChunks /\ IdleCache /\ InitBatch

SpecFetch  == Init /\ [][NextFetch]_vars
SpecFlight == Init /\ [][NextFlight]_vars
SpecLink   == InitWithLink /\ [][NextLink]_vars
SpecExplode == InitWithPermalink /\ [][NextExplode]_vars
SpecExtract == Init /\ [][NextExtract]_vars
SpecChunks == InitWithNodes /\ [][NextChunks]_vars
SpecCache == InitWithResult /\ [][NextCache]_vars
SpecBatch == InitWithBatch /\ [][NextBatch]_vars
\* the runtime goes on with a batch that can go on
FairSpecBatch == InitWithBatch /\ [][NextBatch]_vars /\ WF_vars(NextBatch)

\* the page runs the script it was given: a step of extractTweets that can
\* be taken is taken
PageStep ==
    \/ PageBegin
    \/ PageReturns
    \/ PageTimesOut
    \/ PageExtractStarts
    \/ PageSkipsPinned
    \/ PageExtractDone
    \/ PageExtractFails
FairSpecExtract == Init /\ [][NextExtract]_vars /\ WF_vars(PageStep)

-----------------------------------------------------------------------------
(* Properties                                                              *)

\* C1: at most one batch is executing at any time, and a trigger issued while
\* a batch is executing starts no batch and receives the promise of the batch
\* in flight (hence the same fulfilment or rejection).
C1_Singleflight ==
    /\ Cardinality(RunningBatches) <= 1
    /\ \A i \in DOMAIN held :
          held[i].inflight # {} =>
             /\ held[i].started = NoPromise
             /\ held[i].inflight = {held[i].promise}

\* a scheduled and a manual trigger share one batch, which failed for both
C1_Witness ==
    \E i, j \in DOMAIN held :
       /\ i < j
       /\ held[i].kind # held[j].kind
       /\ held[i].started # NoPromise
       /\ held[j].inflight = {held[i].started}
       /\ held[j].promise = held[i].promise
       /\ finState[held[j].promise] = "rejected"

\* C2: once the batch in flight has completed, fulfilled or rejected, and its
\* cleanup has run, the guard is clear; the guard never names a batch whose
\* promise has settled; and a trigger that finds no batch executing starts
\* exactly one fresh batch.
C2_Cleanup ==
    /\ (EventLoopIdle /\ RunningBatches = {}) => activePromise = NoPromise
    /\ \A b \in Batches :
          finState[b] \in {"fulfilled", "rejected"} => activePromise # b
    /\ \A i \in DOMAIN held :
          held[i].inflight = {} =>
             /\ held[i].started # NoPromise
             /\ held[i].promise = held[i].started
             /\ \A j \in DOMAIN held : j # i => held[j].started # held[i].started

\* after a batch that failed, the next trigger started a fresh batch
C2_Witness ==
    \E i, j \in DOMAIN held :
       /\ i < j
       /\ finState[held[i].promise] = "rejected"
       /\ held[j].inflight = {}
       /\ held[j].started # NoPromise
       /\ held[j].started # held[i].promise
       /\ activePromise = held[j].started

\* C3: reliableFetch makes at most MAX_ATTEMPTS attempts, never raises, returns
\* true exactly when an attempt got an ok response, which is then its last
\* attempt, and returns false only after exactly MAX_ATTEMPTS attempts.
C3_ReliableFetch ==
    /\ Len(outcomes) <= 5
    /\ rfResult # "raised"
    /\ \A i \in DOMAIN outcomes : outcomes[i] = "ok" => i = Len(outcomes)
    /\ (rfPc = "done") = (rfResult \in {"true", "false"})
    /\ rfPc = "done" =>
          /\ (rfResult = "true") = (\E i \in DOMAIN outcomes : outcomes[i] = "ok")
          /\ rfResult = "false" => Len(outcomes) = 5
    /\ (rfPc # "done" /\ outcomes # <<>>) => outcomes[Len(outcomes)] # "ok"

\* four failures of every kind, then success on the fifth attempt
C3_Witness ==
    /\ rfPc = "done"
    /\ rfResult = "true"
    /\ Len(outcomes) = 5
    /\ {outcomes[i] : i \in 1..4} = {"reject", "timeout", "nonok"}

\* C4: a timed-out attempt's call is aborted before the next attempt starts:
\* never two underlying calls outstanding, none left after the return.
C4_Cancelled ==
    /\ Cardinality(outstanding) <= 1
    /\ rfPc = "done" => outstanding = {}

\* C5 as stated: once a call of unwrapLink for a link has returned u, every
\* later call for that link inside the expiry window returns u and does not
\* invoke the resolver.
C5_Idempotent ==
    \A c \in CallIds :
       \A p \in calls[c].prior :
          /\ ~calls[c].followed
          /\ calls[c].pc = "done" => calls[c].result = p[1]

\* C5 as amended: once a call of unwrapLink for a link that overlapped no
\* other call for the same link has returned u, every later call for that link
\* inside the expiry window returns u, does not invoke the resolver and does
\* not fail.
C5_IdempotentAlone ==
    \A c \in CallIds :
       \A p \in calls[c].prior :
          p[2] =>
             /\ ~calls[c].followed
             /\ calls[c].pc \in {"getting", "done"}
             /\ calls[c].pc = "done" => calls[c].result = p[1]

\* a resolution that ran alone stored a cleaned URL with a byte above 0x7F, and
\* two later calls, overlapping each other, both got it from the cache
C5_Witness ==
    \E c, d \in CallIds :
       /\ c # d
       /\ calls[c].pc = "done" /\ calls[d].pc = "done"
       /\ ~calls[c].alone /\ ~calls[d].alone
       /\ calls[c].prior = {<< <<98, 255>>, TRUE >>}
       /\ calls[d].prior = calls[c].prior
       /\ calls[c].result = <<98, 255>>
       /\ calls[d].result = <<98, 255>>
       /\ ~calls[c].wrote /\ ~calls[d].wrote

\* C6: on a cache miss, a hop sequence with no hop marked final (the empty one
\* included) makes unwrapLink fail: nothing is returned, the tracking link
\* least of all, and the call writes no cache entry.
C6_Unresolved ==
    \A c \in CallIds :
       calls[c].hops = "nofinal" =>
          /\ calls[c].pc = "failed"
          /\ calls[c].result = Null
          /\ ~calls[c].wrote
          /\ calls[c].final = Null

\* a call failed on hops without a final one and left the cache as it
\* was, while another call for the same link resolved it
C6_Witness ==
    \E c, d \in CallIds :
       /\ calls[c].hops = "nofinal"
       /\ calls[c].pc = "failed"
       /\ calls[d].link = calls[c].link
       /\ calls[d].pc = "done"
       /\ calls[d].wrote

\* The path as the text between its slashes, by position: segment k of a
\* pathname lies between its k-th slash and the next one (or the end).
SlashAt(q) == {i \in DOMAIN q : q[i] = "/"}
NthSlash(q, k) == CHOOSE i \in SlashAt(q) : Cardinality({j \in SlashAt(q) : j < i}) = k - 1
SegmentCount(q) == Cardinality(SlashAt(q))
Segment(q, k) ==
    LET from == NthSlash(q, k)
        to == IF k < SegmentCount(q) THEN NthSlash(q, k + 1) ELSE Len(q) + 1
    IN  SubSeq(q, from + 1, to - 1)

OnTweetHost(link) == link.isUrl /\ ToLowerCase(link.host) \in {"x.com", "twitter.com"}

\* the two shapes the claim names: /{username}/status/{id} and /{username}
IsStatusPath(q) ==
    /\ SegmentCount(q) = 3
    /\ Segment(q, 1) # <<>> /\ Segment(q, 2) = <<"status">> /\ Segment(q, 3) # <<>>
IsUserPath(q) == SegmentCount(q) = 1 /\ Segment(q, 1) # <<>>

LoopRunning == pagePc \in {"invoked", "loopTop", "extracting"}
LoopEnded == pagePc \in {"returned", "threw", "closed"}

NoRevisit ==
    /\ \A i \in DOMAIN visitLog : visitLog[i] \in marked
    /\ pagePc = "extracting" => tweetEl \in marked
    /\ \A i, j \in DOMAIN visitLog : i # j => visitLog[i] # visitLog[j]
    /\ \A i, j \in DOMAIN tweets : i # j => tweets[i].el # tweets[j].el

WithinCap ==
    /\ Len(tweets) <= MAX_TWEETS
    /\ Len(evaluated.list) <= MAX_TWEETS
    /\ Len(visitLog) <= MAX_TWEETS + MaxPinned

\* C8: in one run of the page's extractTweets every element extractTweet is
\* called on carries the visited mark from the start of its extraction, no
\* element is extracted twice, the list never holds more than 15 posts, the
\* number of iterations is bounded by the cap (plus the pinned posts
\* skipped), and a run that has started ends, also when the page offers
\* another unvisited element every time.
C8_ExtractionLoop == [](NoRevisit /\ WithinCap) /\ (LoopRunning ~> LoopEnded)

\* the list was returned at the cap while another unvisited element waited
C8_Witness ==
    /\ pagePc = "returned"
    /\ Len(tweets) = MAX_TWEETS
    /\ tweetEl # NoElement
    /\ tweetEl \notin marked
    /\ Len(visitLog) = MAX_TWEETS + MaxPinned

KeysUntouched ==
    /\ keyPuts = {}
    /\ ~store.profile.present
    /\ ~store.snapshot.present
    /\ ~store.timeline.present

SameTweets(a, b) ==
    /\ Len(a) = Len(b)
    /\ {a[i] : i \in DOMAIN a} = {b[i] : i \in DOMAIN b}

\* C9: a profile extraction succeeds only with a list the page returned
\* because its loop had finished (cap reached or no unvisited element), and
\* returned within 60 s of the start of the race; in every other case,
\* budget exceeded included, it fails, and then none of the profile's
\* timeline, profile and snapshot keys is written or about to be; what is
\* written holds exactly the posts of the finished list.
C9_BudgetIsHardFailure ==
    /\ evaluated.done =>
        /\ evaluated.finished
        /\ evaluated.at - raceStart <= RACE_TIMEOUT_MS
    /\ wOutcome = "ok" => evaluated.done
    /\ wOutcome # "ok" => KeysUntouched
    /\ wPc = "done" /\ ~evaluated.done => wOutcome = "failed"
    /\ store.snapshot.present =>
          SameTweets(store.snapshot.value.tweets, withoutReposts(evaluated.list))
    /\ store.timeline.present => Len(store.timeline.value) = Len(evaluated.list)

\* the loop hit its budget with posts collected, the extraction has failed
\* and nothing is written
C9_Witness ==
    /\ pagePc = "threw"
    /\ budgetExceeded(now, pageStart)
    /\ loopCondition(tweetEl, tweets)
    /\ Len(tweets) >= 1
    /\ wOutcome = "failed"
    /\ KeysUntouched

NonIncreasing(list) ==
    \A i, j \in DOMAIN list :
        i < j => DateParse(list[i].timestamp) >= DateParse(list[j].timestamp)

\* C10: the list a successful extraction returns is non-increasing by
\* Date.parse of the timestamps and holds exactly the posts the page
\* extracted, in whatever order the page visited them; the stored snapshot
\* and timeline are in that order.
C10_SortedByTimestamp ==
    /\ wOutcome = "ok" =>
        /\ NonIncreasing(wTweets)
        /\ SameTweets(wTweets, evaluated.list)
    /\ store.snapshot.present =>
        /\ NonIncreasing(store.snapshot.value.tweets)
        /\ SameTweets(store.snapshot.value.tweets, withoutReposts(evaluated.list))
    /\ store.timeline.present =>
        /\ Len(store.timeline.value) = Len(wTweets)
        /\ \A i \in DOMAIN wTweets :
              store.timeline.value[i][2] = keyOf(wTweets[i])

\* the page visited an older post before a newer one, and the timeline is
\* stored
C10_Witness ==
    /\ wOutcome = "ok"
    /\ store.timeline.present
    /\ Len(evaluated.list) = MAX_TWEETS
    /\ \E i, j \in DOMAIN evaluated.list :
          /\ i < j
          /\ DateParse(evaluated.list[i].timestamp)
                < DateParse(evaluated.list[j].timestamp)

\* the shapes of a child node, read off the tree
OnlyChild(n) == Len(n.kids) = 1
SpanText(n) ==
    n.nodeName = "SPAN" /\ OnlyChild(n) /\ n.kids[1].nodeName = "#text"
SpanAnchorText(n) ==
    /\ n.nodeName = "SPAN" /\ OnlyChild(n)
    /\ n.kids[1].nodeName = "A" /\ OnlyChild(n.kids[1])
    /\ n.kids[1].kids[1].nodeName = "#text"
DivSpanAnchorText(n) ==
    n.nodeName = "DIV" /\ OnlyChild(n) /\ SpanAnchorText(n.kids[1])
BareAnchor(n) == n.nodeName = "A" /\ ~OnlyChild(n)
EmojiImage(n) == n.nodeName = "IMG" /\ n.src = EmojiSrc

\* the variant each shape is given when every recognized shape yields a chunk
\* and the sign is looked for at the very start of the text
VariantStrict(n) ==
    IF SpanText(n) THEN "text"
    ELSE IF DivSpanAnchorText(n) /\ startsWith(textContent(n), "@") THEN "mention"
    ELSE IF SpanAnchorText(n) /\ startsWith(textContent(n), "#") THEN "hashtag"
    ELSE IF BareAnchor(n) THEN "link"
    ELSE IF EmojiImage(n) THEN "emoji"
    ELSE "fail"

\* the same, but a SPAN with empty text yields nothing and a mention may have
\* white space in front of the '@'
VariantLenient(n) ==
    IF SpanText(n) THEN (IF textContent(n) = <<>> THEN "none" ELSE "text")
    ELSE IF DivSpanAnchorText(n) /\ startsWith(trim(textContent(n)), "@")
    THEN "mention"
    ELSE IF SpanAnchorText(n) /\ startsWith(textContent(n), "#") THEN "hashtag"
    ELSE IF BareAnchor(n) THEN "link"
    ELSE IF EmojiImage(n) THEN "emoji"
    ELSE "fail"

ChunkTypes == [i \in DOMAIN ctChunks |-> ctChunks[i].type]
IsChunk(v) == v # "none"
LenientTypes ==
    SelectSeq([i \in 1 .. (ctIdx - 1) |-> VariantLenient(ctNodes[i])], IsChunk)

\* C12 as stated: every child node classified so far has appended exactly
\* one chunk, of the variant its shape determines, in child order, and the
\* classification fails only at a child of no recognized shape.
C12_Classifier ==
    /\ ctPc # "idle" =>
          ChunkTypes = [i \in 1 .. (ctIdx - 1) |-> VariantStrict(ctNodes[i])]
    /\ ctPc = "threw" => VariantStrict(ctNodes[ctIdx]) = "fail"

\* C12, amended: the chunks appended so far are, in child order, those of
\* the children classified so far, one per child except that a SPAN with
\* empty text appends none; a mention is recognized by the '@' at the start
\* of the trimmed text; the classification fails exactly at the first child
\* of no recognized shape, which is neither skipped nor made a text chunk.
C12_ClassifierLenient ==
    /\ ctPc # "idle" => ChunkTypes = LenientTypes
    /\ ctPc # "idle" =>
          \A i \in 1 .. (ctIdx - 1) : VariantLenient(ctNodes[i]) # "fail"
    /\ ctPc = "threw" => VariantLenient(ctNodes[ctIdx]) = "fail"
    /\ ctPc = "returned" => ctIdx = Len(ctNodes) + 1

\* a classification that returned after a SPAN with empty text and a
\* mention with a blank in front
C12_Witness ==
    /\ ctPc = "returned"
    /\ Len(ctNodes) = 2
    /\ textContent(ctNodes[1]) = <<>> /\ SpanText(ctNodes[1])
    /\ ChunkTypes = <<"mention">>
    /\ ctChunks[1].content = <<" ", "@", "a">>
    /\ ctChunks[1].user = <<"@", "a">>

\* the permalink of the post has a username and an id
WellFormed(t) == t.link = permalink(t.el)
BadPermalink == wOutcome = "ok" /\ \E i \in DOMAIN wTweets : ~WellFormed(wTweets[i])

\* the refresh has put its three keys
KeysIssued ==
    \/ wPc = "putKeys"
    \/ /\ wPc = "done" /\ wOutcome = "ok" /\ failedPuts = {}
       /\ \A i \in DOMAIN wTweets : WellFormed(wTweets[i])
TimelineWritten == KeysIssued /\ "timeline" \notin keyPuts
\* updateTweetsCache has returned after writing everything
Succeeded == KeysIssued /\ wPc = "done"

\* the pointer a post is to be given: its kind from the flag, its key from
\* the lower-cased username and the id of the permalink
PointerOf(t) ==
    <<IF t.repost THEN "repost" ELSE "post",
      <<"tweet/u:", <<"nwsnewyorkny">>, "/id:", <<ToString(t.el)>> >> >>

\* C11: no post body in the store carries a repost flag; once the refresh
\* has written the timeline, the pointer of each of its posts is of kind
\* 'repost' exactly if the post was extracted as a repost, and the read path
\* rebuilds the post from pointer and body with that same flag; a feed that
\* was served shows a post as reposted exactly if its pointer said so.
C11_RepostRoundTrip ==
    /\ \A p \in store.posts : "repost" \notin DOMAIN p.body
    /\ \A i \in DOMAIN postPuts : "repost" \notin DOMAIN postPuts[i].body
    /\ TimelineWritten =>
          /\ Len(store.timeline.value) = Len(wTweets)
          /\ \A i \in DOMAIN wTweets :
                /\ store.timeline.value[i][1] = "repost" <=> wTweets[i].repost
                /\ ~broken(store.posts, store.timeline.value[i])
                /\ reconstruct(store.posts, store.timeline.value[i]) = wTweets[i]
    /\ rPc = "done" /\ rFormat = "rss" /\ rResponse.status = "200"
         /\ rTimeline.present /\ rProfile.present =>
          \A i \in DOMAIN rResponse.items :
              rResponse.items[i].reposted <=> rTimeline.value[i][1] = "repost"

\* a repost and a post went through the pointers of this refresh into a feed
C11_Witness ==
    /\ TimelineWritten
    /\ \E i, j \in DOMAIN wTweets : wTweets[i].repost /\ ~wTweets[j].repost
    /\ rPc = "done" /\ rFormat = "rss" /\ rResponse.status = "200"
    /\ rTimeline = store.timeline
    /\ \E i, j \in DOMAIN rResponse.items :
          rResponse.items[i].reposted /\ ~rResponse.items[j].reposted

\* every post of the refresh has a put, and every put is acknowledged
AllPostsStored ==
    /\ Len(postPuts) = Len(wTweets)
    /\ settled = DOMAIN postPuts
    /\ failedPuts = {}
    /\ \A i \in DOMAIN postPuts : postPuts[i] \in store.posts

KeysTouched ==
    \/ keyPuts # {}
    \/ store.profile # store0.profile
    \/ store.timeline # store0.timeline
    \/ store.snapshot # store0.snapshot

\* C15: whenever a put of the profile, timeline or snapshot key of the
\* refresh is in flight or has changed the store, every post of the refresh
\* has had its body put and acknowledged, and no post put is pending or has
\* failed.
C15_PostsBeforeKeys == KeysTouched \/ wPc = "putKeys" => AllPostsStored

\* the timeline put is in flight after the posts were acknowledged one by one
C15_Witness ==
    /\ wPc = "putKeys"
    /\ "timeline" \in keyPuts
    /\ Len(wTweets) = MaxPosts
    /\ AllPostsStored

\* C16 as stated: a feed request answers 503 when neither the pointer index
\* nor the snapshot is there, and never raises.
C16_ReadNeverRaises ==
    /\ rPc = "done" /\ ~(rTimeline.present /\ rProfile.present)
         /\ ~store.snapshot.present => rResponse = Unavailable
    /\ rResponse.status # "error"

\* C17: after updateTweetsCache has returned from a refresh that wrote its
\* keys, the stored timeline is exactly the pointers of this refresh's
\* posts, in the order of the sorted list, whatever the timeline held before.
C17_TimelineReplaced ==
    Succeeded =>
        /\ store.timeline.present
        /\ store.timeline.value = [i \in DOMAIN wTweets |-> PointerOf(wTweets[i])]
        /\ NonIncreasing(wTweets)

\* a timeline of the refresh before was replaced by one with a repost
C17_Witness ==
    /\ Succeeded
    /\ store0 = OldStore
    /\ Len(wTweets) = MaxPosts
    /\ \E i \in DOMAIN wTweets : wTweets[i].repost
    /\ \A i \in DOMAIN store.timeline.value :
          store.timeline.value[i] # PointerOf(OldTweets[1])

\* C18 as stated: a refresh that wrote its keys has written the snapshot
\* with the same profile and posts, and the feed read from the snapshot is
\* the feed read through the pointers.
C18_SnapshotSameContent ==
    Succeeded =>
        /\ store.snapshot.present
        /\ store.snapshot.value.profile = store.profile.value
        /\ \A format \in {"rss", "json"} :
              viaSnapshot(format, store.snapshot)
                = viaPointers(format, store.posts, store.timeline.value,
                              store.profile.value)

\* C19: when a post of the refresh has a permalink without username or id,
\* no put of the profile, timeline or snapshot key is ever issued, the three
\* keys keep what they held before the refresh, and no body of that post is
\* put.
C19_BadPermalinkAborts ==
    BadPermalink =>
        /\ ~KeysTouched
        /\ wPc \in {"closing", "done"}
        /\ \A i \in DOMAIN wTweets : ~WellFormed(wTweets[i]) =>
              \A j \in DOMAIN postPuts : postPuts[j].body.el # wTweets[i].el

\* updateTweetsCache has returned: one post had a bad permalink, the body
\* of the other is stored, the keys are those of the refresh before
C19_Witness ==
    /\ BadPermalink
    /\ wPc = "done"
    /\ store0 = OldStore
    /\ Len(wTweets) = MaxPosts
    /\ postPuts # <<>>
    /\ settled = DOMAIN postPuts
    /\ store.timeline = OldStore.timeline
-----------------------------------------------------------------------------
(* Properties of one batch                                                  *)

Failed(u) == prof[u].pc = "done" /\ prof[u].outcome # "ok"

AllDone == \A u \in allowedUsernames : prof[u].pc = "done"

Issued(signal) == signal \in {"sending", "delivered", "failed"}

NoPoison ==
    /\ hcFail = "none"
    /\ \A u \in allowedUsernames : prof[u].pc # "rejected"
    /\ bPc = "rejected" => hcStart = "failed"
    /\ \A u \in allowedUsernames :
          prof[u].pc = "done" => (prof[u].wrote <=> prof[u].outcome = "ok")
    /\ bPc = "finished" =>
          /\ AllDone
          /\ hcId = "configured" => Issued(hcFinish)

\* C13: whichever profiles fail, and however, the failure stays inside that
\* profile's refresh: no refresh rejects, the failure signal is never sent,
\* the batch is rejected only when the start signal could not be delivered,
\* every profile that ends well has written its keys, and a batch that has
\* begun its refreshes finishes, with every refresh ended and the success
\* signal issued.
C13_FailureIsolation == [](NoPoison) /\ ((bPc = "refreshing") ~> (bPc = "finished"))

C13_Witness ==
    /\ bPc = "finished"
    /\ hcFinish = "delivered"
    /\ Failed("NWSNewYorkNY") /\ prof["NWSNewYorkNY"].outcome = "timeout"
    /\ Failed("NWSAnchorage") /\ prof["NWSAnchorage"].outcome = "bad permalink"
    /\ prof["NWSMelbourne"].outcome = "ok" /\ prof["NWSMelbourne"].wrote

\* C14: with a health check configured, no refresh has started unless the
\* start signal has been delivered, and the success signal is issued only
\* when every refresh of the batch has ended.
C14_HealthcheckOrdering ==
    hcId = "configured" =>
        /\ \A u \in allowedUsernames : prof[u].pc # "idle" => hcStart = "delivered"
        /\ Issued(hcFinish) => AllDone

C14_Witness ==
    /\ hcStart = "delivered"
    /\ hcFinish = "sending"
    /\ AllDone
    /\ \E u \in allowedUsernames : Failed(u)


-----------------------------------------------------------------------------
(* Properties of concurrent link resolutions                                *)

Resolving(c) == calls[c].pc \in {"following", "putting"}

\* C20: for one link the resolver is invoked at most once and the key is
\* written at most once while the entry is unexpired: never two calls for the
\* same link past a cache miss at the same time, and never a put issued for
\* a key whose entry is present.
C20_WriteOnce ==
    /\ \A c, d \in CallIds :
          (c # d /\ calls[c].link = calls[d].link) => ~(Resolving(c) /\ Resolving(d))
    /\ \A c \in CallIds :
          calls[c].pc = "putting" =>
             ~Truthy(tweet_cache[linkUnwrapResultData(calls[c].link)])


-----------------------------------------------------------------------------
(* Properties of the pointers and of the legacy snapshot                    *)

Unbroken(timeline) ==
    timeline.present =>
        \A i \in DOMAIN timeline.value : ~broken(store.posts, timeline.value[i])

\* C23: every pointer of the stored timeline, and every pointer of a
\* timeline a feed request has read and not yet followed, refers to a key
\* under which a post body is stored: in the middle of a refresh, after a
\* refresh some of whose puts failed, and with a feed request between any
\* two puts.
C23_NoBrokenPointer == Unbroken(store.timeline) /\ Unbroken(rTimeline)

\* a feed request holds the timeline of the refresh before, while this
\* refresh has stored one body, lost the put of another and gives up
C23_Witness ==
    /\ store0 = OldStore
    /\ rPc = "reading"
    /\ rTimeline = OldStore.timeline
    /\ failedPuts # {}
    /\ settled \ failedPuts # {}
    /\ store.posts # OldStore.posts
    /\ wPc = "done"

SnapshotWritten == KeysIssued /\ "snapshot" \notin keyPuts

\* C24: the snapshot a refresh has written holds every post of the refresh
\* with the repost flag it was extracted with.
C24_SnapshotKeepsRepost ==
    SnapshotWritten =>
        /\ Len(store.snapshot.value.tweets) = Len(wTweets)
        /\ \A i \in DOMAIN wTweets :
              truthyRepost(store.snapshot.value.tweets[i]) = wTweets[i].repost


-----------------------------------------------------------------------------
(* Properties of the final-hop selection                                    *)

ReturnsWanted(c) ==
    calls[c].want # Null =>
        /\ calls[c].pc \in {"putting", "done"}
        /\ calls[c].final = calls[c].want
        /\ calls[c].pc = "done" => (calls[c].result = calls[c].want /\ calls[c].wrote)

PersistsReturned(c) ==
    (calls[c].pc = "putting" /\ calls'[c].pc = "done") =>
        atob(tweet_cache'[linkUnwrapResultData(calls[c].link)]) = calls'[c].result

\* C22: on a cache miss whose hops hold a hop marked final, unwrapLink
\* returns the location of the last final hop as recorded, the cleaned one
\* when there is one and the original one otherwise, and the entry it puts
\* under the key of the link decodes to exactly the returned value.
C22_FinalHop ==
    /\ [](\A c \in CallIds : ReturnsWanted(c))
    /\ [][\A c \in CallIds : PersistsReturned(c)]_vars


-----------------------------------------------------------------------------
(* Properties of the limiters and of the health reporting of a batch        *)

WithinLimits ==
    /\ Cardinality(running) <= PLIMIT
    /\ \A u \in allowedUsernames : prof[u].active <= UNWRAP_LIMIT

\* a refresh the batch has handed to its limiter and that has not started,
\* or a link resolution of the profile that its limiter holds queued
Waiting(u) ==
    \/ bPc = "refreshing" /\ prof[u].pc = "idle"
    \/ prof[u].queued > 0

\* C21: never more than 5 refreshes of the batch running at once and never
\* more than 3 link resolutions of one profile in flight at once; whenever a
\* refresh or a link resolution waits in a limiter, a state follows in which
\* none waits: every one of them has been started.
C21_BoundedParallelism ==
    /\ []WithinLimits
    /\ (\E u \in allowedUsernames : Waiting(u)) ~> (\A u \in allowedUsernames : ~Waiting(u))

\* a profile has every slot of its limiter taken and a link still queued,
\* while all three refreshes are running
C21_Witness ==
    /\ running = allowedUsernames
    /\ prof["NWSAnchorage"].active = UNWRAP_LIMIT
    /\ prof["NWSAnchorage"].queued = MaxLinks - UNWRAP_LIMIT
    /\ prof["NWSAnchorage"].queued > 0

\* C25: when the start signal could not be delivered, no refresh of the
\* batch is started and neither the success nor the failure signal is sent;
\* when it was delivered, the two are never both issued, and a batch that has
\* ended has issued exactly one of them.
C25_ReportingOutcomes ==
    /\ hcStart = "failed" =>
          /\ \A u \in allowedUsernames : prof[u].pc = "idle"
          /\ hcFinish = "none" /\ hcFail = "none"
    /\ hcStart = "delivered" =>
          /\ ~(Issued(hcFinish) /\ Issued(hcFail))
          /\ bPc \in {"finished", "rejected"} => (Issued(hcFinish) \/ Issued(hcFail))

\* the start signal was not delivered and the batch has ended there
C25_Witness ==
    /\ hcId = "configured"
    /\ hcStart = "failed"
    /\ bPc = "rejected"


====
